---- MODULE Spec2Model ----
(***************************************************************************)
(* Model of jaxxstorm/vers: version resolution from a Git repository       *)
(* (git.go) and rendering into five ecosystem strings (version.go).        *)
(* Strings are TLA+ strings; characters are strings of length 1.           *)
(***************************************************************************)
EXTENDS Integers, Sequences, FiniteSets, TLC

(***************************************************************************)
(* Bounds of the model.                                                    *)
(***************************************************************************)
\* commits of the repositories with a rich tag set (linear or forked history)
MaxCommits == 2
\* tags of the repositories with a rich tag set
MaxTags == 2
\* commits of the repositories with arbitrary merge graphs
MaxGraphCommits == 4

(***************************************************************************)
(* Go string helpers (package strings, path, strconv, fmt).                *)
(***************************************************************************)
Ch(s, i) == SubSeq(s, i, i)

\* strings.HasPrefix
HasPrefix(s, p) == Len(s) >= Len(p) /\ SubSeq(s, 1, Len(p)) = p

\* strings.TrimPrefix: removes one leading occurrence of p
TrimPrefix(s, p) == IF HasPrefix(s, p) THEN SubSeq(s, Len(p) + 1, Len(s)) ELSE s

\* strings.Index: 1-based position of the first occurrence of p in s, 0 if none
Index(s, p) ==
  LET pos == {i \in 1..(Len(s) - Len(p) + 1) : SubSeq(s, i, i + Len(p) - 1) = p}
  IN IF pos = {} THEN 0 ELSE CHOOSE i \in pos : \A j \in pos : i <= j

\* strings.LastIndex: 1-based position of the last occurrence of p in s, 0 if none
LastIndex(s, p) ==
  LET pos == {i \in 1..(Len(s) - Len(p) + 1) : SubSeq(s, i, i + Len(p) - 1) = p}
  IN IF pos = {} THEN 0 ELSE CHOOSE i \in pos : \A j \in pos : i >= j

\* strings.Contains
Contains(s, p) == \E i \in 1..(Len(s) - Len(p) + 1) : SubSeq(s, i, i + Len(p) - 1) = p

\* strings.Split(s, sep) for a one-character sep: a sequence of strings
RECURSIVE Split(_, _)
Split(s, sep) ==
  LET i == Index(s, sep)
  IN IF i = 0 THEN <<s>>
     ELSE <<SubSeq(s, 1, i - 1)>> \o Split(SubSeq(s, i + 1, Len(s)), sep)

\* strings.SplitN(s, sep, n) for n >= 1: at most n parts, the last one unsplit
RECURSIVE SplitN(_, _, _)
SplitN(s, sep, n) ==
  LET i == Index(s, sep)
  IN IF n <= 1 \/ i = 0 THEN <<s>>
     ELSE <<SubSeq(s, 1, i - 1)>> \o SplitN(SubSeq(s, i + 1, Len(s)), sep, n - 1)

DigitChars == "0123456789"
LowerChars == "abcdefghijklmnopqrstuvwxyz"
UpperChars == "ABCDEFGHIJKLMNOPQRSTUVWXYZ"

\* value of a decimal digit character
DigitVal(c) == Index(DigitChars, c) - 1

\* semver containsOnly(s, set): every character of s occurs in set
containsOnly(s, set) == \A i \in 1..Len(s) : Contains(set, Ch(s, i))

\* semver hasLeadingZeroes
hasLeadingZeroes(s) == Len(s) > 1 /\ Ch(s, 1) = "0"

\* strconv.ParseUint(s, 10, 64) on a string of digits (non-empty)
RECURSIVE ParseUint(_)
ParseUint(s) ==
  IF Len(s) = 0 THEN 0
  ELSE 10 * ParseUint(SubSeq(s, 1, Len(s) - 1)) + DigitVal(Ch(s, Len(s)))

\* fmt.Sprintf("%d", n) for n >= 0, and strconv.FormatInt(n, 10)
RECURSIVE FormatInt(_)
FormatInt(n) ==
  IF n < 10 THEN Ch(DigitChars, n + 1)
  ELSE FormatInt(n \div 10) \o Ch(DigitChars, (n % 10) + 1)

\* path.Split(tag): the text after the final "/" (second result)
pathSplitFile(tag) == SubSeq(tag, LastIndex(tag, "/") + 1, Len(tag))

(***************************************************************************)
(* blang/semver: Version, PRVersion and Parse.                             *)
(***************************************************************************)
semverNumbers == DigitChars
semverAlphanum == LowerChars \o UpperChars \o DigitChars \o "-"

NoVersion == [Major |-> 0, Minor |-> 0, Patch |-> 0, Pre |-> <<>>, Build |-> <<>>]

\* semver.NewPRVersion: ok = FALSE on an error
NewPRVersion(s) ==
  IF Len(s) = 0 THEN [ok |-> FALSE, VersionStr |-> "", VersionNum |-> 0, IsNum |-> FALSE]
  ELSE IF containsOnly(s, semverNumbers)
       THEN IF hasLeadingZeroes(s)
            THEN [ok |-> FALSE, VersionStr |-> "", VersionNum |-> 0, IsNum |-> FALSE]
            ELSE [ok |-> TRUE, VersionStr |-> "", VersionNum |-> ParseUint(s), IsNum |-> TRUE]
       ELSE IF containsOnly(s, semverAlphanum)
            THEN [ok |-> TRUE, VersionStr |-> s, VersionNum |-> 0, IsNum |-> FALSE]
            ELSE [ok |-> FALSE, VersionStr |-> "", VersionNum |-> 0, IsNum |-> FALSE]

PRVersion(p) == [VersionStr |-> p.VersionStr, VersionNum |-> p.VersionNum, IsNum |-> p.IsNum]

NumericOK(s) == Len(s) > 0 /\ containsOnly(s, semverNumbers) /\ ~hasLeadingZeroes(s)

\* semver.Parse: [ok, v]; ok = FALSE when Parse returns an error
semverParse(s) ==
  LET parts == SplitN(s, ".", 3)
  IN IF Len(s) = 0 \/ Len(parts) # 3 THEN [ok |-> FALSE, v |-> NoVersion]
     ELSE
       LET rest0 == parts[3]
           bi == Index(rest0, "+")
           build == IF bi # 0 THEN Split(SubSeq(rest0, bi + 1, Len(rest0)), ".") ELSE <<>>
           rest1 == IF bi # 0 THEN SubSeq(rest0, 1, bi - 1) ELSE rest0
           pi == Index(rest1, "-")
           pre == IF pi # 0 THEN Split(SubSeq(rest1, pi + 1, Len(rest1)), ".") ELSE <<>>
           patchStr == IF pi # 0 THEN SubSeq(rest1, 1, pi - 1) ELSE rest1
           prs == [i \in 1..Len(pre) |-> NewPRVersion(pre[i])]
           ok == /\ NumericOK(parts[1]) /\ NumericOK(parts[2]) /\ NumericOK(patchStr)
                 /\ \A i \in 1..Len(pre) : prs[i].ok
                 /\ \A i \in 1..Len(build) :
                       Len(build[i]) > 0 /\ containsOnly(build[i], semverAlphanum)
       IN IF ~ok THEN [ok |-> FALSE, v |-> NoVersion]
          ELSE [ok |-> TRUE,
                v |-> [Major |-> ParseUint(parts[1]), Minor |-> ParseUint(parts[2]),
                       Patch |-> ParseUint(patchStr),
                       Pre |-> [i \in 1..Len(pre) |-> PRVersion(prs[i])],
                       Build |-> build]]

(***************************************************************************)
(* State.                                                                  *)
(*   parents, tags, head, worktree : the repository handed to Calculate    *)
(*   opts                          : Calculate's (local copy of) Options   *)
(*   pc                            : the stage of Calculate about to run   *)
(*   revision .. components        : locals of getVersionComponents,       *)
(*                                   determineBaseVersion, mostRecentTag   *)
(*   storerFault                   : the read of the object or reference   *)
(*                                   store that fails, "none" when all     *)
(*                                   succeed                               *)
(*   versionString                 : the argument of CalculateFromString   *)
(*   result, err                   : what the entry point returns          *)
(***************************************************************************)
VARIABLES parents, tags, head, worktree, storerFault, versionString, cli, cwd, opts, pc,
          revision, tagRef, walker, baseVersion, isExact, version, components, result, err,
          commands, stdout, exitErr

vars == <<parents, tags, head, worktree, storerFault, versionString, cli, cwd, opts, pc,
          revision, tagRef, walker, baseVersion, isExact, version, components, result, err,
          commands, stdout, exitErr>>

\* the inputs of a call: no stage writes them
repoVars == <<parents, tags, head, worktree, storerFault, versionString, cli, cwd>>

\* what the command line program leaves behind: the text written to standard
\* output and the error calculateVersion returns ("" is nil)
cliVars == <<stdout, exitErr>>

(***************************************************************************)
(* The repository: commits are 1..n, parents[c] is the list of parent      *)
(* commits in order, a tag is [name, target, annotated].                   *)
(***************************************************************************)
\* committer time of a commit, Unix seconds
CommitterWhen(c) == 1700000000 + 60 * c

\* the 40-digit hexadecimal id of a commit
HashString(c) == FormatInt(c) \o "f3a9c2e" \o "0b1d2e3f4a5b6c7d8e9f0a1b2c3d4e5f"

\* plumbing.ReferenceName.String of a tag reference
RefNameString(t) == "refs/tags/" \o t.name

(***************************************************************************)
(* Package regexp (regexp.Compile, regexp.MatchString) with the syntax of  *)
(* regexp/syntax under the flags syntax.Perl.  A pattern is parsed as      *)
(* parse.go parses it, token by token, into an expression tree; a match is *)
(* computed on sets of positions of the text.  Characters are code points; *)
(* the texts of the model are ASCII, so a set of characters is kept on     *)
(* CodePoints, the ASCII range and the two other code points that fold to  *)
(* an ASCII letter.  Not modelled: the limits on the size and the nesting  *)
(* depth of an expression, which take a pattern of more than a thousand    *)
(* characters to reach, and code point 96, which the module cannot write.  *)
(***************************************************************************)
\* the code point of every character a string of the model can hold
CodeOf ==
  LET chars == "\t\n\f\r" \o " !\"#$%&'()*+,-./0123456789:;<=>?@ABCDEFGHIJKLMNOPQRSTUVWXYZ"
                 \o "[\\]^_abcdefghijklmnopqrstuvwxyz{|}~"
      code(k) == IF k <= 4 THEN <<9, 10, 12, 13>>[k] ELSE IF k <= 68 THEN k + 27 ELSE k + 28
  IN [c \in {SubSeq(chars, k, k) : k \in 1..Len(chars)} |->
        code(CHOOSE k \in 1..Len(chars) : SubSeq(chars, k, k) = c)]

\* the code point of a character, -1 for no character (the end of a text)
Code(c) == IF c = "" THEN -1 ELSE CodeOf[c]

\* the code points a set of characters is kept on: ASCII, U+017F and U+212A
CodePoints == (0..127) \cup {383, 8490}

\* t[i-1] when len(t) >= i, "" otherwise
Peek(t, i) == IF 1 <= i /\ i <= Len(t) THEN SubSeq(t, i, i) ELSE ""

\* t[n:], "" when len(t) <= n
Drop(t, n) == IF n >= Len(t) THEN "" ELSE SubSeq(t, n + 1, Len(t))

\* appendFoldedRange, appendFoldedClass: with fold, every code point that
\* simple case folding makes equal to one of the set is added (the orbits
\* that meet ASCII are the letters, k K U+212A and s S U+017F)
Folded(set, fold) ==
  LET key(c) == IF c \in 65..90 THEN c + 32 ELSE IF c = 383 THEN 115
                ELSE IF c = 8490 THEN 107 ELSE c
  IN IF ~fold THEN set
     ELSE set \cup {c \in (65..90) \cup (97..122) \cup {383, 8490} :
                      \E d \in set : key(d) = key(c)}

\* parser.appendGroup, appendTable/appendNegatedTable: a named set is folded
\* first and negated after
GroupSet(set, negate, fold) ==
  IF negate THEN CodePoints \ Folded(set, fold) ELSE Folded(set, fold)

\* perl_groups.go: perlGroup and posixGroup, by the name as written
CharGroup(name) ==
  LET digit == 48..57
      upper == 65..90
      lower == 97..122
      neg == Len(name) > 3 /\ SubSeq(name, 1, 3) = "[:^"
      key == IF neg THEN "[:" \o Drop(name, 3) ELSE name
      g(set, negate) == [ok |-> TRUE, set |-> set, negate |-> negate]
  IN CASE key = "\\d" -> g(digit, FALSE)
       [] key = "\\D" -> g(digit, TRUE)
       [] key = "\\s" -> g({9, 10, 12, 13, 32}, FALSE)
       [] key = "\\S" -> g({9, 10, 12, 13, 32}, TRUE)
       [] key = "\\w" -> g(digit \cup upper \cup lower \cup {95}, FALSE)
       [] key = "\\W" -> g(digit \cup upper \cup lower \cup {95}, TRUE)
       [] key = "[:alnum:]" -> g(digit \cup upper \cup lower, neg)
       [] key = "[:alpha:]" -> g(upper \cup lower, neg)
       [] key = "[:ascii:]" -> g(0..127, neg)
       [] key = "[:blank:]" -> g({9, 32}, neg)
       [] key = "[:cntrl:]" -> g((0..31) \cup {127}, neg)
       [] key = "[:digit:]" -> g(digit, neg)
       [] key = "[:graph:]" -> g(33..126, neg)
       [] key = "[:lower:]" -> g(lower, neg)
       [] key = "[:print:]" -> g(32..126, neg)
       [] key = "[:punct:]" -> g((33..47) \cup (58..64) \cup (91..96) \cup (123..126), neg)
       [] key = "[:space:]" -> g((9..13) \cup {32}, neg)
       [] key = "[:upper:]" -> g(upper, neg)
       [] key = "[:word:]" -> g(digit \cup upper \cup lower \cup {95}, neg)
       [] key = "[:xdigit:]" -> g(digit \cup (65..70) \cup (97..102), neg)
       [] OTHER -> [ok |-> FALSE, set |-> {}, negate |-> FALSE]

\* the names of unicode.Scripts whose tables hold no ASCII character
UnicodeScripts ==
  {"Adlam", "Ahom", "Anatolian_Hieroglyphs", "Arabic", "Armenian", "Avestan", "Balinese",
   "Bamum", "Bassa_Vah", "Batak", "Bengali", "Bhaiksuki", "Bopomofo", "Brahmi", "Braille",
   "Buginese", "Buhid", "Canadian_Aboriginal", "Carian", "Caucasian_Albanian", "Chakma",
   "Cham", "Cherokee", "Chorasmian", "Coptic", "Cuneiform", "Cypriot", "Cypro_Minoan",
   "Cyrillic", "Deseret", "Devanagari", "Dives_Akuru", "Dogra", "Duployan",
   "Egyptian_Hieroglyphs", "Elbasan", "Elymaic", "Ethiopic", "Georgian", "Glagolitic",
   "Gothic", "Grantha", "Greek", "Gujarati", "Gunjala_Gondi", "Gurmukhi", "Han", "Hangul",
   "Hanifi_Rohingya", "Hanunoo", "Hatran", "Hebrew", "Hiragana", "Imperial_Aramaic",
   "Inherited", "Inscriptional_Pahlavi", "Inscriptional_Parthian", "Javanese", "Kaithi",
   "Kannada", "Katakana", "Kawi", "Kayah_Li", "Kharoshthi", "Khitan_Small_Script", "Khmer",
   "Khojki", "Khudawadi", "Lao", "Lepcha", "Limbu", "Linear_A", "Linear_B", "Lisu",
   "Lycian", "Lydian", "Mahajani", "Makasar", "Malayalam", "Mandaic", "Manichaean",
   "Marchen", "Masaram_Gondi", "Medefaidrin", "Meetei_Mayek", "Mende_Kikakui",
   "Meroitic_Cursive", "Meroitic_Hieroglyphs", "Miao", "Modi", "Mongolian", "Mro",
   "Multani", "Myanmar", "Nabataean", "Nag_Mundari", "Nandinagari", "New_Tai_Lue", "Newa",
   "Nko", "Nushu", "Nyiakeng_Puachue_Hmong", "Ogham", "Ol_Chiki", "Old_Hungarian",
   "Old_Italic", "Old_North_Arabian", "Old_Permic", "Old_Persian", "Old_Sogdian",
   "Old_South_Arabian", "Old_Turkic", "Old_Uyghur", "Oriya", "Osage", "Osmanya",
   "Pahawh_Hmong", "Palmyrene", "Pau_Cin_Hau", "Phags_Pa", "Phoenician", "Psalter_Pahlavi",
   "Rejang", "Runic", "Samaritan", "Saurashtra", "Sharada", "Shavian", "Siddham",
   "SignWriting", "Sinhala", "Sogdian", "Sora_Sompeng", "Soyombo", "Sundanese",
   "Syloti_Nagri", "Syriac", "Tagalog", "Tagbanwa", "Tai_Le", "Tai_Tham", "Tai_Viet",
   "Takri", "Tamil", "Tangsa", "Tangut", "Telugu", "Thaana", "Thai", "Tibetan", "Tifinagh",
   "Tirhuta", "Toto", "Ugaritic", "Vai", "Vithkuqi", "Wancho", "Warang_Citi", "Yezidi", "Yi",
   "Zanabazar_Square"}

\* unicodeTable: "Any", then unicode.Categories, then unicode.Scripts, each
\* table cut to CodePoints; ok = FALSE for a name in none of them
UnicodeTable(name) ==
  LET upper == 65..90
      lower == 97..122
      digit == 48..57
      tab(set) == [ok |-> TRUE, set |-> set]
  IN CASE name = "Any" -> tab(CodePoints)
       [] name \in {"C", "Cc"} -> tab((0..31) \cup {127})
       [] name \in {"L", "Latin"} -> tab(upper \cup lower \cup {383, 8490})
       [] name = "Ll" -> tab(lower \cup {383})
       [] name = "Lu" -> tab(upper \cup {8490})
       [] name \in {"N", "Nd"} -> tab(digit)
       [] name = "P" -> tab({33, 34, 35, 37, 38, 39, 40, 41, 42, 44, 45, 46, 47, 58, 59, 63,
                             64, 91, 92, 93, 95, 123, 125})
       [] name = "Pc" -> tab({95})
       [] name = "Pd" -> tab({45})
       [] name = "Pe" -> tab({41, 93, 125})
       [] name = "Po" -> tab({33, 34, 35, 37, 38, 39, 42, 44, 46, 47, 58, 59, 63, 64, 92})
       [] name = "Ps" -> tab({40, 91, 123})
       [] name = "S" -> tab({36, 43, 60, 61, 62, 94, 96, 124, 126})
       [] name = "Sc" -> tab({36})
       [] name = "Sk" -> tab({94, 96})
       [] name = "Sm" -> tab({43, 60, 61, 62, 124, 126})
       [] name \in {"Z", "Zs"} -> tab({32})
       [] name = "Common" -> tab((0..64) \cup (91..96) \cup (123..127))
       [] name \in {"Cf", "Co", "Cs", "Lm", "Lo", "Lt", "M", "Mc", "Me", "Mn", "Nl", "No",
                    "Pf", "Pi", "So", "Zl", "Zp"} \cup UnicodeScripts -> tab({})
       [] OTHER -> [ok |-> FALSE, set |-> {}]

\* the value of a run of hexadecimal digits, as parseEscape adds it up: the
\* sum stops growing once it is above unicode.MaxRune
RECURSIVE HexValue(_)
HexValue(s) ==
  IF s = "" THEN 0
  ELSE LET v == HexValue(SubSeq(s, 1, Len(s) - 1))
           c == Code(SubSeq(s, Len(s), Len(s)))
       IN IF v > 1114111 THEN v
          ELSE 16 * v + (IF c <= 57 THEN c - 48 ELSE IF c <= 70 THEN c - 55 ELSE c - 87)

\* parser.parseEscape on a text that starts with a backslash: [ok, r, rest]
parseEscape(t) ==
  LET c == Peek(t, 2)
      k == Code(c)
      octal(i) == Code(Peek(t, i)) \in 48..55
      hex(i) == Code(Peek(t, i)) \in (48..57) \cup (65..70) \cup (97..102)
      n == IF ~octal(3) THEN 2 ELSE IF ~octal(4) THEN 3 ELSE 4
      close == Index(t, "}")
      digits == SubSeq(t, 4, close - 1)
      value(r, rest) == [ok |-> TRUE, r |-> r, rest |-> rest]
      error == [ok |-> FALSE, r |-> 0, rest |-> ""]
  IN CASE c = "" -> error
       [] k \in 49..55 /\ ~octal(3) -> error
       [] k = 48 \/ (k \in 49..55 /\ octal(3)) ->
            value(IF n = 2 THEN k - 48
                  ELSE IF n = 3 THEN 8 * (k - 48) + Code(Peek(t, 3)) - 48
                  ELSE 64 * (k - 48) + 8 * (Code(Peek(t, 3)) - 48) + Code(Peek(t, 4)) - 48,
                  Drop(t, n))
       [] c = "x" /\ Peek(t, 3) = "{" ->
            IF /\ close > 4
               /\ \A i \in 4..(close - 1) : hex(i)
               /\ HexValue(digits) <= 1114111
            THEN value(HexValue(digits), Drop(t, close))
            ELSE error
       [] c = "x" /\ Peek(t, 3) # "{" ->
            IF hex(3) /\ hex(4) THEN value(HexValue(SubSeq(t, 3, 4)), Drop(t, 4)) ELSE error
       [] c = "a" -> value(7, Drop(t, 2))
       [] c = "f" -> value(12, Drop(t, 2))
       [] c = "n" -> value(10, Drop(t, 2))
       [] c = "r" -> value(13, Drop(t, 2))
       [] c = "t" -> value(9, Drop(t, 2))
       [] c = "v" -> value(11, Drop(t, 2))
       [] OTHER ->
            IF k \in (48..57) \cup (65..90) \cup (97..122) THEN error
            ELSE value(k, Drop(t, 2))

\* parser.parseRepeat with parser.parseInt on a text that starts with "{":
\* [ok, min, max, rest]; max = -1 is no upper bound, min = -1 a count too
\* large to hold; ok = FALSE when the text is no repetition
parseRepeat(t) ==
  LET digit(i) == Code(Peek(t, i)) \in 48..57
      \* the position after the digits that start at i
      end(i) == CHOOSE j \in i..(Len(t) + 1) : ~digit(j) /\ \A k \in i..(j - 1) : digit(k)
      \* parseInt: no digit, or a leading zero, is no number
      isInt(i) == digit(i) /\ ~(Peek(t, i) = "0" /\ digit(i + 1))
      int(i) == IF end(i) - i > 9 THEN -1 ELSE ParseUint(SubSeq(t, i, end(i) - 1))
      j == end(2)
      comma == Peek(t, j) = ","
      open == comma /\ Peek(t, j + 1) = "}"
      k == IF ~comma THEN j ELSE IF open THEN j + 1 ELSE end(j + 1)
      max == IF ~comma THEN int(2) ELSE IF open THEN -1 ELSE int(j + 1)
      min == IF comma /\ ~open /\ max < 0 THEN -1 ELSE int(2)
  IN IF /\ isInt(2)
        /\ (comma /\ ~open) => isInt(j + 1)
        /\ Peek(t, k) = "}"
     THEN [ok |-> TRUE, min |-> min, max |-> max, rest |-> Drop(t, k)]
     ELSE [ok |-> FALSE, min |-> 0, max |-> 0, rest |-> t]

\* parser.parseUnicodeClass on a text that starts with \p or \P:
\* [ok, set, rest]
parseUnicodeClass(t, fold) ==
  LET braces == Peek(t, 3) = "{"
      close == Index(t, "}")
      seq == IF braces THEN SubSeq(t, 4, close - 1) ELSE Peek(t, 3)
      caret == Peek(seq, 1) = "^"
      class(tab) ==
        IF ~tab.ok THEN [ok |-> FALSE, set |-> {}, rest |-> ""]
        ELSE [ok |-> TRUE, set |-> GroupSet(tab.set, (Peek(t, 2) = "P") # caret, fold),
              rest |-> Drop(t, IF braces THEN close ELSE 3)]
  IN IF braces /\ close = 0 THEN [ok |-> FALSE, set |-> {}, rest |-> ""]
     ELSE class(UnicodeTable(IF caret THEN Drop(seq, 1) ELSE seq))

\* one pass of the loop of parser.parseClass: a POSIX class, a Unicode
\* class, a Perl class, or a character or range by parser.parseClassChar:
\* [ok, set, rest]
ClassItem(t, fold) ==
  LET named == Index(Drop(t, 2), ":]")
      error == [ok |-> FALSE, set |-> {}, rest |-> ""]
      group(g, rest) ==
        IF g.ok THEN [ok |-> TRUE, set |-> GroupSet(g.set, g.negate, fold), rest |-> rest]
        ELSE error
      char(u) == IF u = "" THEN [ok |-> FALSE, r |-> 0, rest |-> ""]
                 ELSE IF Peek(u, 1) = "\\" THEN parseEscape(u)
                 ELSE [ok |-> TRUE, r |-> Code(Peek(u, 1)), rest |-> Drop(u, 1)]
      range(lo, hi) ==
        IF ~lo.ok \/ ~hi.ok \/ hi.r < lo.r THEN error
        ELSE [ok |-> TRUE, rest |-> hi.rest,
              set |-> Folded({c \in CodePoints \cup {lo.r} : lo.r <= c /\ c <= hi.r}, fold)]
      from(lo) ==
        IF Len(lo.rest) >= 2 /\ Peek(lo.rest, 1) = "-" /\ Peek(lo.rest, 2) # "]"
        THEN range(lo, char(Drop(lo.rest, 1)))
        ELSE range(lo, lo)
  IN CASE Len(t) > 2 /\ SubSeq(t, 1, 2) = "[:" /\ named # 0 ->
            group(CharGroup(SubSeq(t, 1, named + 3)), Drop(t, named + 3))
       [] Peek(t, 1) = "\\" /\ Peek(t, 2) \in {"p", "P"} -> parseUnicodeClass(t, fold)
       [] Peek(t, 1) = "\\" /\ Peek(t, 2) \in {"d", "D", "s", "S", "w", "W"} ->
            group(CharGroup(SubSeq(t, 1, 2)), Drop(t, 2))
       [] OTHER -> from(char(t))

\* the loop of parser.parseClass on the text after "[" and "^": the union of
\* the items up to the closing "]", which is a character when it comes first
RECURSIVE parseClass(_, _, _, _)
parseClass(t, class, first, fold) ==
  LET next(item) ==
        IF ~item.ok THEN [ok |-> FALSE, set |-> {}, rest |-> ""]
        ELSE parseClass(item.rest, class \cup item.set, FALSE, fold)
  IN IF Peek(t, 1) = "]" /\ ~first THEN [ok |-> TRUE, set |-> class, rest |-> Drop(t, 1)]
     ELSE next(ClassItem(t, fold))

\* a syntax.Regexp: op is "set" (a literal, a class, "."), an empty-width
\* operator "bot" "eot" "bol" "eol" "wb" "nwb", "cat", "alt", or a
\* repetition "star" "plus" "quest" "repeat" of subs[1] with min and max
Node(op, set, min, max, subs) ==
  [op |-> op, set |-> set, min |-> min, max |-> max, subs |-> subs]

\* parser.push on the parser [ok, t, stack, flags, last]: the stack holds one
\* frame [flags, alts, cur] for the top level and for every open group, alts
\* the alternatives closed by "|" and cur the operands since; flags is
\* [i, m, s]; last tells that the token before was a repetition
Emit(p, rest, nodes) ==
  [p EXCEPT !.t = rest, !.last = FALSE, !.stack[Len(p.stack)].cur = @ \o nodes]

\* parser.op(opLeftParen): the frame keeps the flags to restore at ")"
OpenGroup(p, rest, saved, flags) ==
  [p EXCEPT !.t = rest, !.last = FALSE, !.flags = flags,
            !.stack = Append(@, [flags |-> saved, alts |-> <<>>, cur |-> <<>>])]

\* the loop of parser.parsePerlFlags on the text after "(?":
\* [ok, flags, group, rest]; group tells that ":" ended the flags
RECURSIVE FlagsLoop(_, _, _, _)
FlagsLoop(t, flags, negated, sawFlag) ==
  LET c == Peek(t, 1)
      u == Drop(t, 1)
  IN CASE c = "i" -> FlagsLoop(u, [flags EXCEPT !.i = ~negated], negated, TRUE)
       [] c = "m" -> FlagsLoop(u, [flags EXCEPT !.m = ~negated], negated, TRUE)
       [] c = "s" -> FlagsLoop(u, [flags EXCEPT !.s = ~negated], negated, TRUE)
       [] c = "U" -> FlagsLoop(u, flags, negated, TRUE)
       [] c = "-" /\ ~negated -> FlagsLoop(u, flags, TRUE, FALSE)
       [] c \in {":", ")"} /\ (negated => sawFlag) ->
            [ok |-> TRUE, flags |-> flags, group |-> c = ":", rest |-> u]
       [] OTHER -> [ok |-> FALSE, flags |-> flags, group |-> FALSE, rest |-> ""]

\* parser.parsePerlFlags on a text that starts with "(?": a named group
\* (?P<name> or (?<name>, a group (?flags: or a change of flags (?flags)
parsePerlFlags(p) ==
  LET t == p.t
      start == IF Peek(t, 3) = "<" THEN 4 ELSE 5
      end == Index(t, ">")
      name == SubSeq(t, start, end - 1)
      word == (48..57) \cup (65..90) \cup (97..122) \cup {95}
      flags(f) ==
        IF ~f.ok THEN [p EXCEPT !.ok = FALSE]
        ELSE IF f.group THEN OpenGroup(p, f.rest, p.flags, f.flags)
        ELSE [p EXCEPT !.t = f.rest, !.last = FALSE, !.flags = f.flags]
  IN IF (Len(t) > 4 /\ SubSeq(t, 3, 4) = "P<") \/ (Len(t) > 3 /\ Peek(t, 3) = "<")
     THEN IF end # 0 /\ name # "" /\ \A i \in 1..Len(name) : Code(Peek(name, i)) \in word
          THEN OpenGroup(p, Drop(t, end), p.flags, p.flags)
          ELSE [p EXCEPT !.ok = FALSE]
     ELSE flags(FlagsLoop(Drop(t, 2), p.flags, FALSE, FALSE))

\* repeatIsValid: the product of the nested counts stays within n
RECURSIVE repeatIsValid(_, _)
repeatIsValid(re, n) ==
  LET m == IF re.op # "repeat" THEN 0 ELSE IF re.max < 0 THEN re.min ELSE re.max
  IN IF re.op = "repeat" /\ re.max = 0 THEN TRUE
     ELSE IF m > n THEN FALSE
     ELSE \A i \in 1..Len(re.subs) :
            repeatIsValid(re.subs[i], IF m > 0 THEN n \div m ELSE n)

\* parser.repeat: the operator takes the last operand of the frame; after is
\* the text behind the operator
repeat(p, op, min, max, after) ==
  LET top == Len(p.stack)
      cur == p.stack[top].cur
      n == Len(cur)
      re == Node(op, {}, min, max, <<cur[n]>>)
  IN IF p.last \/ n = 0 THEN [p EXCEPT !.ok = FALSE]
     ELSE IF op = "repeat" /\ (min >= 2 \/ max >= 2) /\ ~repeatIsValid(re, 1000)
          THEN [p EXCEPT !.ok = FALSE]
     ELSE [p EXCEPT !.t = IF Peek(after, 1) = "?" THEN Drop(after, 1) ELSE after,
                    !.last = TRUE, !.stack[top].cur[n] = re]

\* the case '\\' of syntax.parse: \A \b \B \z, \Q..\E, a Unicode class, a
\* Perl class, or a single character by parseEscape
parseBackslash(p) ==
  LET t == p.t
      c == Peek(t, 2)
      fold == p.flags.i
      u == Drop(t, 2)
      e == Index(u, "\\E")
      lit == IF e = 0 THEN u ELSE SubSeq(u, 1, e - 1)
      empty(op) == Emit(p, u, <<Node(op, {}, 0, 0, <<>>)>>)
      class(cl) ==
        IF cl.ok THEN Emit(p, cl.rest, <<Node("set", cl.set, 0, 0, <<>>)>>)
        ELSE [p EXCEPT !.ok = FALSE]
      group(g) == Emit(p, u, <<Node("set", GroupSet(g.set, g.negate, fold), 0, 0, <<>>)>>)
      char(esc) ==
        IF esc.ok THEN Emit(p, esc.rest, <<Node("set", Folded({esc.r}, fold), 0, 0, <<>>)>>)
        ELSE [p EXCEPT !.ok = FALSE]
  IN CASE c = "A" -> empty("bot")
       [] c = "b" -> empty("wb")
       [] c = "B" -> empty("nwb")
       [] c = "C" -> [p EXCEPT !.ok = FALSE]
       [] c = "Q" ->
            Emit(p, IF e = 0 THEN "" ELSE Drop(u, e + 1),
                 [i \in 1..Len(lit) |->
                    Node("set", Folded({Code(Peek(lit, i))}, fold), 0, 0, <<>>)])
       [] c = "z" -> empty("eot")
       [] c \in {"p", "P"} -> class(parseUnicodeClass(t, fold))
       [] c \in {"d", "D", "s", "S", "w", "W"} -> group(CharGroup(SubSeq(t, 1, 2)))
       [] OTHER -> char(parseEscape(t))

\* one pass of the loop of syntax.parse: the token at the head of p.t
parseStep(p) ==
  LET t == p.t
      c == Peek(t, 1)
      u == Drop(t, 1)
      fl == p.flags
      top == Len(p.stack)
      frame == p.stack[top]
      negate == Peek(t, 2) = "^"
      empty(op) == Emit(p, u, <<Node(op, {}, 0, 0, <<>>)>>)
      set(s) == Emit(p, u, <<Node("set", s, 0, 0, <<>>)>>)
      bar(seq) ==
        [p EXCEPT !.t = u, !.last = FALSE,
                  !.stack[top] = [flags |-> frame.flags, alts |-> Append(frame.alts, seq),
                                  cur |-> <<>>]]
      close(seq) ==
        IF top < 2 THEN [p EXCEPT !.ok = FALSE]
        ELSE Emit([p EXCEPT !.stack = SubSeq(@, 1, top - 1), !.flags = frame.flags],
                  u, <<Node("alt", {}, 0, 0, Append(frame.alts, seq))>>)
      class(cl) ==
        IF ~cl.ok THEN [p EXCEPT !.ok = FALSE]
        ELSE Emit(p, cl.rest,
                  <<Node("set", IF negate THEN CodePoints \ cl.set ELSE cl.set, 0, 0, <<>>)>>)
      braces(r) ==
        IF ~r.ok THEN set({123})
        ELSE IF r.min < 0 \/ r.min > 1000 \/ r.max > 1000 \/ (r.max >= 0 /\ r.min > r.max)
             THEN [p EXCEPT !.ok = FALSE]
        ELSE repeat(p, "repeat", r.min, r.max, r.rest)
  IN CASE c = "(" /\ Peek(t, 2) = "?" -> parsePerlFlags(p)
       [] c = "(" /\ Peek(t, 2) # "?" -> OpenGroup(p, u, fl, fl)
       [] c = "|" -> bar(Node("cat", {}, 0, 0, frame.cur))
       [] c = ")" -> close(Node("cat", {}, 0, 0, frame.cur))
       [] c = "^" -> empty(IF fl.m THEN "bol" ELSE "bot")
       [] c = "$" -> empty(IF fl.m THEN "eol" ELSE "eot")
       [] c = "." -> set(IF fl.s THEN CodePoints ELSE CodePoints \ {10})
       [] c = "[" -> class(parseClass(Drop(t, IF negate THEN 2 ELSE 1), {}, TRUE, fl.i))
       [] c \in {"*", "+", "?"} ->
            repeat(p, IF c = "*" THEN "star" ELSE IF c = "+" THEN "plus" ELSE "quest",
                   IF c = "+" THEN 1 ELSE 0, IF c = "?" THEN 1 ELSE -1, u)
       [] c = "{" -> braces(parseRepeat(t))
       [] c = "\\" -> parseBackslash(p)
       [] OTHER -> set(Folded({Code(c)}, fl.i))

\* the loop of syntax.parse: token after token until the text is used up or
\* an error ends the parse
RECURSIVE parseLoop(_)
parseLoop(p) == IF ~p.ok \/ p.t = "" THEN p ELSE parseLoop(parseStep(p))

\* syntax.Parse(pattern, syntax.Perl): [ok, re]; at the end of the text every
\* group has to be closed
syntaxParse(pattern) ==
  LET flags == [i |-> FALSE, m |-> FALSE, s |-> FALSE]
      end(p) ==
        [ok |-> p.ok /\ Len(p.stack) = 1,
         re |-> Node("alt", {}, 0, 0,
                     Append(p.stack[1].alts, Node("cat", {}, 0, 0, p.stack[1].cur)))]
  IN end(parseLoop([ok |-> TRUE, t |-> pattern, last |-> FALSE, flags |-> flags,
                    stack |-> <<[flags |-> flags, alts |-> <<>>, cur |-> <<>>]>>]))

\* the positions of the text s (a sequence of code points) at which a match
\* of x can end when it starts at a position of P.  x is an expression
\* (mode "node"), a list to match in a row ("cat") or alternatives ("alt");
\* "times" matches x n times, "upto" at most n times, "any" any number of
\* times
RECURSIVE Match(_, _, _, _, _)
Match(mode, x, s, P, n) ==
  LET end == Len(s) + 1
      word(i) == i >= 1 /\ i < end /\ s[i] \in (48..57) \cup (65..90) \cup (97..122) \cup {95}
      once == Match("node", x, s, P, 0)
      more == P \cup once
      least == Match("times", x.subs[1], s, P, x.min)
  IN IF P = {} THEN {}
     ELSE CASE mode = "cat" ->
                 IF x = <<>> THEN P ELSE Match("cat", Tail(x), s, Match("node", Head(x), s, P, 0), 0)
            [] mode = "alt" ->
                 UNION {Match("node", x[i], s, P, 0) : i \in 1..Len(x)}
            [] mode = "times" ->
                 IF n = 0 \/ once = P THEN P ELSE Match("times", x, s, once, n - 1)
            [] mode = "upto" ->
                 IF n = 0 \/ more = P THEN P ELSE Match("upto", x, s, more, n - 1)
            [] mode = "any" ->
                 IF more = P THEN P ELSE Match("any", x, s, more, 0)
            [] mode = "node" /\ x.op = "set" -> {i + 1 : i \in {j \in P : j < end /\ s[j] \in x.set}}
            [] mode = "node" /\ x.op = "bot" -> P \cap {1}
            [] mode = "node" /\ x.op = "eot" -> P \cap {end}
            [] mode = "node" /\ x.op = "bol" -> {i \in P : i = 1 \/ s[i - 1] = 10}
            [] mode = "node" /\ x.op = "eol" -> {i \in P : i = end \/ s[i] = 10}
            [] mode = "node" /\ x.op = "wb" -> {i \in P : word(i - 1) # word(i)}
            [] mode = "node" /\ x.op = "nwb" -> {i \in P : word(i - 1) = word(i)}
            [] mode = "node" /\ x.op = "cat" -> Match("cat", x.subs, s, P, 0)
            [] mode = "node" /\ x.op = "alt" -> Match("alt", x.subs, s, P, 0)
            [] OTHER ->
                 IF x.max < 0 THEN Match("any", x.subs[1], s, least, 0)
                 ELSE Match("upto", x.subs[1], s, least, x.max - x.min)

\* mutation: every pattern compiles
regexpCompileOK_Always(pattern) == TRUE

\* regexp.Compile(pattern) returns no error
regexpCompileOK(pattern) == syntaxParse(pattern).ok

\* regexp.MatchString(pattern, s) with a pattern that compiles: some
\* substring of s matches
regexpMatchString(pattern, s) ==
  Match("node", syntaxParse(pattern).re, [i \in 1..Len(s) |-> Code(SubSeq(s, i, i))],
        1..(Len(s) + 1), 0) # {}

\* Options.TagFilter as a value: "nil", a caller's closure, or the closure
\* Calculate builds around the compiled TagPattern
FilterNil == [kind |-> "nil", re |-> ""]
\* git_test.go noSlashFilter
FilterNoSlash == [kind |-> "noSlash", re |-> ""]
\* the closure around the compiled pattern; the pattern is compiled once, and
\* `table` holds what it answers on the tag names of the repository
FilterRegexp(p) ==
  [kind |-> "regexp", re |-> p,
   table |-> [n \in {t.name : t \in tags} |-> regexpMatchString(p, n)]]

\* calling the TagFilter closure on a tag name
tagFilterCall(f, tag) ==
  CASE f.kind = "noSlash" -> ~Contains(tag, "/")
    [] f.kind = "regexp" ->
         IF tag \in DOMAIN f.table THEN f.table[tag] ELSE regexpMatchString(f.re, tag)
    [] OTHER -> TRUE

\* mutation: only "beta" tags are skipped, "rc" tags are not
tagConsidered_BetaOnly(t, isPrerelease, tagFilter) ==
  LET refName == RefNameString(t)
  IN /\ ~(~isPrerelease /\ Contains(refName, "beta"))
     /\ ~(tagFilter.kind # "nil" /\ ~tagFilterCall(tagFilter, TrimPrefix(refName, "refs/tags/")))

\* mutation: the filter is called on the full reference name
tagConsidered_NoTrim(t, isPrerelease, tagFilter) ==
  LET refName == RefNameString(t)
  IN /\ ~(~isPrerelease /\ (Contains(refName, "beta") \/ Contains(refName, "rc")))
     /\ ~(tagFilter.kind # "nil" /\ ~tagFilterCall(tagFilter, refName))

\* the body of the tags.ForEach callback of isExactTag up to the object lookup:
\* TRUE when the reference is not skipped
tagConsidered(t, isPrerelease, tagFilter) ==
  LET refName == RefNameString(t)
  IN /\ ~(~isPrerelease /\ (Contains(refName, "beta") \/ Contains(refName, "rc")))
     /\ ~(tagFilter.kind # "nil" /\ ~tagFilterCall(tagFilter, TrimPrefix(refName, "refs/tags/")))

\* plumbing.Reference.Hash of a tag reference: the commit for a lightweight
\* tag, the tag object (ids below zero) for an annotated one
RefHash(t) == IF t.annotated THEN 0 - t.target ELSE t.target

\* Repository.TagObject: the tag object with its target, or the error
\* plumbing.ErrObjectNotFound when the id is not one of a tag object, or, when
\* the read of the store fails, another error
TagObject(h, readFails) ==
  IF readFails THEN [err |-> "read", Target |-> 0]
  ELSE IF h < 0 THEN [err |-> "", Target |-> 0 - h]
  ELSE [err |-> "ErrObjectNotFound", Target |-> 0]

\* git.go 147-165, the end of the tags.ForEach callback of isExactTag for a
\* reference that is not skipped: "stop" when the reference points at the
\* commit `hash` (exactTag is set, storer.ErrStop), "next" when it does not
\* (return nil), "err" when the object lookup fails (default: return err)
tagPointsAt(t, hash, readFails) ==
  LET obj == TagObject(RefHash(t), readFails)
  IN CASE obj.err = "" -> IF obj.Target = hash THEN "stop" ELSE "next"
       [] obj.err = "ErrObjectNotFound" -> IF RefHash(t) = hash THEN "stop" ELSE "next"
       [] OTHER -> "err"

\* mutation: the target of the reference is not compared with the commit
exactTagMatches_AnyTarget(tagset, hash, isPrerelease, tagFilter) ==
  {t \in tagset : tagConsidered(t, isPrerelease, tagFilter)}

\* mutation: the tag filter is not applied when a commit is checked
exactTagMatches_Unfiltered(tagset, hash, isPrerelease, tagFilter) ==
  {t \in tagset : tagConsidered(t, isPrerelease, FilterNil)
                    /\ tagPointsAt(t, hash, FALSE) = "stop"}

\* the references at which the callback of isExactTag sets exactTag for `hash`
\* when every object lookup answers: annotated tag whose object targets hash,
\* or lightweight tag whose hash is hash
exactTagMatches(tagset, hash, isPrerelease, tagFilter) ==
  {t \in tagset : tagConsidered(t, isPrerelease, tagFilter)
                    /\ tagPointsAt(t, hash, FALSE) = "stop"}

\* mutation: the name is cut after its first "/" instead of its last
stripModuleTagPrefixes_FirstSlash(tag) ==
  TrimPrefix(SubSeq(tag, Index(tag, "/") + 1, Len(tag)), "v")

\* stripModuleTagPrefixes
stripModuleTagPrefixes(tag) == TrimPrefix(pathSplitFile(tag), "v")

(***************************************************************************)
(* object.NewCommitPreorderIter: start commit, a stack of parent           *)
(* iterators and the set of commits already returned.                      *)
(***************************************************************************)
NewCommitPreorderIter(c) == [start |-> c, stack |-> <<>>, seen |-> {}]

\* mutation: the parents are iterated last parent first
filteredParentIter_Reversed(par, c, seen) ==
  LET ps == SelectSeq(par[c], LAMBDA h : h \notin seen)
  IN [i \in 1..Len(ps) |-> ps[Len(ps) + 1 - i]]

\* filteredParentIter: the parents of c not yet seen, in order
filteredParentIter(par, c, seen) == SelectSeq(par[c], LAMBDA h : h \notin seen)

\* mutation: the returned commit is not recorded as seen
walkerVisit_ForgetSeen(par, w, c, stack) ==
  [start |-> 0, seen |-> w.seen,
   stack |-> IF Len(par[c]) > 0
             THEN Append(stack, SelectSeq(par[c], LAMBDA h : h \notin w.seen))
             ELSE stack]

\* pushes the parent iterator of a returned commit
walkerVisit(par, w, c, stack) ==
  LET seen2 == w.seen \cup {c}
  IN [start |-> 0, seen |-> seen2,
      stack |-> IF Len(par[c]) > 0
                THEN Append(stack, filteredParentIter(par, c, seen2))
                ELSE stack]

\* commitPreIterator.Next: [eof, c, w]
RECURSIVE walkerNext(_, _)
walkerNext(par, w) ==
  IF w.start # 0
  THEN IF w.start \in w.seen
       THEN walkerNext(par, [w EXCEPT !.start = 0])
       ELSE [eof |-> FALSE, c |-> w.start, w |-> walkerVisit(par, w, w.start, w.stack)]
  ELSE IF Len(w.stack) = 0 THEN [eof |-> TRUE, c |-> 0, w |-> w]
  ELSE LET cur == Len(w.stack)
           it == w.stack[cur]
       IN IF Len(it) = 0
          THEN walkerNext(par, [w EXCEPT !.stack = SubSeq(w.stack, 1, cur - 1)])
          ELSE LET c == Head(it)
                   popped == [w.stack EXCEPT ![cur] = Tail(it)]
               IN IF c \in w.seen
                  THEN walkerNext(par, [w EXCEPT !.stack = popped])
                  ELSE [eof |-> FALSE, c |-> c, w |-> walkerVisit(par, w, c, popped)]

(***************************************************************************)
(* getVersionComponents: bump, release prefix, dirty check.                *)
(***************************************************************************)
PRAlpha == [VersionStr |-> "alpha", VersionNum |-> 0, IsNum |-> FALSE]

\* mutation: patch is incremented whatever the major version
bumpVersion_PatchOnly(v, exact) ==
  IF exact THEN v
  ELSE [v EXCEPT !.Patch = @ + 1, !.Pre = <<PRAlpha>>]

\* mutation: the prerelease of the base tag is kept
bumpVersion_KeepPre(v, exact) ==
  IF exact THEN v
  ELSE IF v.Major = 0
       THEN [v EXCEPT !.Patch = @ + 1]
       ELSE [v EXCEPT !.Minor = @ + 1, !.Patch = 0]

\* git.go 51-60: increment version for non-exact matches
bumpVersion(v, exact) ==
  IF exact THEN v
  ELSE LET inc == IF v.Major = 0
                  THEN [v EXCEPT !.Patch = @ + 1]
                  ELSE [v EXCEPT !.Minor = @ + 1, !.Patch = 0]
       IN [inc EXCEPT !.Pre = <<PRAlpha>>]

\* mutation: the whole parsed prefix replaces the version
applyReleasePrefix_Whole(v, prefix) ==
  IF prefix = "" THEN [ok |-> TRUE, v |-> v]
  ELSE LET p == semverParse(prefix)
       IN IF ~p.ok THEN [ok |-> FALSE, v |-> v] ELSE [ok |-> TRUE, v |-> p.v]

\* git.go 62-71: apply release prefix override; ok = FALSE on a parse error
applyReleasePrefix(v, prefix) ==
  IF prefix = "" THEN [ok |-> TRUE, v |-> v]
  ELSE LET p == semverParse(prefix)
       IN IF ~p.ok THEN [ok |-> FALSE, v |-> v]
          ELSE [ok |-> TRUE,
                v |-> [v EXCEPT !.Major = p.v.Major, !.Minor = p.v.Minor,
                                !.Patch = p.v.Patch]]

\* output of `git diff-files --name-status`: only tracked files whose working
\* copy differs from the index are listed
diffFilesOutput(state) == IF state = "modified" THEN "M" ELSE ""

\* go-git Status.IsClean: no file is staged, modified or untracked
statusIsClean(state) == state = "clean"

\* the two git commands of the fast path, as they appear in `commands`
UpdateIndex == "git update-index -q --refresh"

DiffFiles == "git diff-files --name-status --ignore-space-at-eol"

\* mutation: a failed refresh is ignored and the diff decides
checkDirtyWithGitCommand_DiffAfterFailedRefresh(wt) ==
  IF wt.fault = "diffExit"
  THEN [ok |-> TRUE, dirty |-> TRUE, cmds |-> <<UpdateIndex, DiffFiles>>, err |-> ""]
  ELSE IF wt.fault = "diffErr"
  THEN [ok |-> FALSE, dirty |-> FALSE, cmds |-> <<UpdateIndex, DiffFiles>>,
        err |-> ""]
  ELSE [ok |-> TRUE, dirty |-> Len(diffFilesOutput(wt.state)) > 0,
        cmds |-> <<UpdateIndex, DiffFiles>>, err |-> ""]

\* mutation: a diff command that exits with a non-zero status is an error
checkDirtyWithGitCommand_ExitIsError(wt) ==
  IF wt.fault = "refresh"
  THEN [ok |-> TRUE, dirty |-> TRUE, cmds |-> <<UpdateIndex>>, err |-> ""]
  ELSE IF wt.fault \in {"diffExit", "diffErr"}
  THEN [ok |-> FALSE, dirty |-> FALSE, cmds |-> <<UpdateIndex, DiffFiles>>,
        err |-> ""]
  ELSE [ok |-> TRUE, dirty |-> Len(diffFilesOutput(wt.state)) > 0,
        cmds |-> <<UpdateIndex, DiffFiles>>, err |-> ""]

\* checkDirtyWithGitCommand: [ok, dirty], the commands it ran, in order, and
\* the context it adds to an error (none: the error of the diff command is
\* returned as it is).  Faults: "refresh" the refresh command fails;
\* "diffExit" the diff command exits with a non-zero status; "diffErr" the
\* diff command cannot be run
checkDirtyWithGitCommand(wt) ==
  IF wt.fault = "refresh"
  THEN [ok |-> TRUE, dirty |-> TRUE, cmds |-> <<UpdateIndex>>, err |-> ""]
  ELSE IF wt.fault = "diffExit"
  THEN [ok |-> TRUE, dirty |-> TRUE, cmds |-> <<UpdateIndex, DiffFiles>>, err |-> ""]
  ELSE IF wt.fault = "diffErr"
  THEN [ok |-> FALSE, dirty |-> FALSE, cmds |-> <<UpdateIndex, DiffFiles>>,
        err |-> ""]
  ELSE [ok |-> TRUE, dirty |-> Len(diffFilesOutput(wt.state)) > 0,
        cmds |-> <<UpdateIndex, DiffFiles>>, err |-> ""]

\* workTreeIsDirty: [ok, dirty], the git commands it ran, and the context it
\* adds to an error: "getting worktree" when repo.Worktree fails (git.go
\* 200-203), "getting git status" when workTree.Status fails (211-214), none
\* for the error of checkDirtyWithGitCommand (207)
workTreeIsDirty(wt) ==
  IF wt.fault = "worktree"
  THEN [ok |-> FALSE, dirty |-> FALSE, cmds |-> <<>>, err |-> "getting worktree"]
  ELSE IF wt.storer = "filesystem" THEN checkDirtyWithGitCommand(wt)
  ELSE IF wt.fault = "status"
  THEN [ok |-> FALSE, dirty |-> FALSE, cmds |-> <<>>, err |-> "getting git status"]
  ELSE [ok |-> TRUE, dirty |-> ~statusIsClean(wt.state), cmds |-> <<>>, err |-> ""]

(***************************************************************************)
(* version.go: buildPreVersionStrings and buildLanguageVersions.           *)
(***************************************************************************)
NoLanguageVersions ==
  [SemVer |-> "", Python |-> "", JavaScript |-> "", DotNet |-> "", Go |-> ""]

\* version.go 140-145: the numeric suffix of the prerelease
preSuffixOf(genericVersion, comp) ==
  IF ~comp.IsExact THEN "." \o FormatInt(comp.Timestamp)
  ELSE IF Len(genericVersion.Pre) > 1
       THEN "." \o FormatInt(genericVersion.Pre[2].VersionNum)
       ELSE ""

\* mutation: IsPreRelease is not read
shortHashOf_IgnorePreRelease(comp, o) ==
  IF ~o.OmitCommitHash THEN "+" \o comp.ShortHash ELSE ""

\* mutation: the OmitCommitHash flag is read inverted
shortHashOf_Inverted(comp, o) ==
  IF o.OmitCommitHash /\ ~o.IsPreRelease THEN "+" \o comp.ShortHash ELSE ""

\* version.go 152-155: "+" and the short hash, or nothing
shortHashOf(comp, o) ==
  IF ~o.OmitCommitHash /\ ~o.IsPreRelease THEN "+" \o comp.ShortHash ELSE ""

\* mutation: an unknown prerelease type is rendered as it is, without error
buildPreVersionStrings_NoDefault(genericVersion, comp, o) ==
  IF Len(genericVersion.Pre) = 0
  THEN [ok |-> TRUE, preVersion |-> "", pythonPreVersion |-> ""]
  ELSE LET preSuffix == preSuffixOf(genericVersion, comp)
           pythonPreSuffix == IF preSuffix # "" THEN SubSeq(preSuffix, 2, Len(preSuffix))
                              ELSE "0"
           shortHash == shortHashOf(comp, o)
           preType == genericVersion.Pre[1].VersionStr
           token == CASE preType = "alpha" -> "a" [] preType = "beta" -> "b"
                      [] OTHER -> preType
       IN [ok |-> TRUE, pythonPreVersion |-> token \o pythonPreSuffix,
           preVersion |-> "-" \o preType \o preSuffix \o shortHash]

\* buildPreVersionStrings: [ok, preVersion, pythonPreVersion]
buildPreVersionStrings(genericVersion, comp, o) ==
  IF Len(genericVersion.Pre) = 0
  THEN [ok |-> TRUE, preVersion |-> "", pythonPreVersion |-> ""]
  ELSE LET preSuffix == preSuffixOf(genericVersion, comp)
           pythonPreSuffix == IF preSuffix # "" THEN SubSeq(preSuffix, 2, Len(preSuffix))
                              ELSE "0"
           shortHash == shortHashOf(comp, o)
           preType == genericVersion.Pre[1].VersionStr
       IN CASE preType = "dev" ->
                 [ok |-> TRUE, pythonPreVersion |-> "dev" \o pythonPreSuffix,
                  preVersion |-> "-dev" \o preSuffix \o shortHash]
            [] preType = "alpha" ->
                 [ok |-> TRUE, pythonPreVersion |-> "a" \o pythonPreSuffix,
                  preVersion |-> "-alpha" \o preSuffix \o shortHash]
            [] preType = "beta" ->
                 [ok |-> TRUE, pythonPreVersion |-> "b" \o pythonPreSuffix,
                  preVersion |-> "-beta" \o preSuffix \o shortHash]
            [] preType = "rc" ->
                 [ok |-> TRUE, pythonPreVersion |-> "rc" \o pythonPreSuffix,
                  preVersion |-> "-rc" \o preSuffix \o shortHash]
            [] OTHER -> [ok |-> FALSE, preVersion |-> "", pythonPreVersion |-> ""]

\* version.go 82-97: the version handed to buildPreVersionStrings
genericVersionOf(comp) ==
  LET sv == comp.Semver
  IN [Major |-> sv.Major, Minor |-> sv.Minor, Patch |-> sv.Patch, Build |-> sv.Build,
      Pre |-> IF Len(sv.Pre) = 1
              THEN <<sv.Pre[1],
                     [VersionStr |-> FormatInt(comp.Timestamp), VersionNum |-> 0,
                      IsNum |-> FALSE]>>
              ELSE IF Len(sv.Pre) > 1 THEN sv.Pre ELSE <<>>]

\* mutation: the Python string gets the separator of the generic string
addDirtySuffix_PythonSeparator(pre, dirty) ==
  IF dirty
  THEN [preVersion |-> pre.preVersion
                         \o (IF pre.preVersion = "" THEN "+" ELSE ".") \o "dirty",
        pythonPreVersion |-> pre.pythonPreVersion
                         \o (IF pre.preVersion = "" THEN "+" ELSE ".") \o "dirty"]
  ELSE [preVersion |-> pre.preVersion, pythonPreVersion |-> pre.pythonPreVersion]

\* mutation: the separator before "dirty" is always "."
addDirtySuffix_DotAlways(pre, dirty) ==
  IF dirty
  THEN [preVersion |-> pre.preVersion \o "." \o "dirty",
        pythonPreVersion |-> pre.pythonPreVersion \o "+dirty"]
  ELSE [preVersion |-> pre.preVersion, pythonPreVersion |-> pre.pythonPreVersion]

\* version.go 109-117: add dirty suffix if needed; [preVersion, pythonPreVersion]
addDirtySuffix(pre, dirty) ==
  IF dirty
  THEN [preVersion |-> pre.preVersion
                         \o (IF pre.preVersion = "" THEN "+" ELSE ".") \o "dirty",
        pythonPreVersion |-> pre.pythonPreVersion \o "+dirty"]
  ELSE [preVersion |-> pre.preVersion, pythonPreVersion |-> pre.pythonPreVersion]

\* buildLanguageVersions: [ok, lv]
buildLanguageVersions(comp, o) ==
  LET genericVersion == genericVersionOf(comp)
      base == FormatInt(genericVersion.Major) \o "." \o FormatInt(genericVersion.Minor)
                \o "." \o FormatInt(genericVersion.Patch)
      pre == buildPreVersionStrings(genericVersion, comp, o)
  IN IF ~pre.ok THEN [ok |-> FALSE, lv |-> NoLanguageVersions]
     ELSE LET d == addDirtySuffix(pre, comp.Dirty)
              ver == base \o d.preVersion
          IN [ok |-> TRUE,
              lv |-> [SemVer |-> ver, Python |-> base \o d.pythonPreVersion,
                      JavaScript |-> "v" \o ver, DotNet |-> ver, Go |-> "v" \o ver]]

(***************************************************************************)
(* version.go: CalculateFromString, convertPatchToPython,                  *)
(* getPythonPreVersion, getPythonPrePrefix and GenerateFallbackVersion.    *)
(* The three regular expressions are computed on the string.               *)
(***************************************************************************)
HexChars == "0123456789abcdef"

\* the class \w of regexp: [0-9A-Za-z_]
WordChars == DigitChars \o LowerChars \o UpperChars \o "_"

IsDigitAt(s, i) == i >= 1 /\ i <= Len(s) /\ Contains(DigitChars, Ch(s, i))

IsWordAt(s, i) == i >= 1 /\ i <= Len(s) /\ Contains(WordChars, Ch(s, i))

\* the end of the longest run of digits of s that starts at i (i - 1 if none)
RECURSIVE DigitRunEnd(_, _)
DigitRunEnd(s, i) == IF IsDigitAt(s, i) THEN DigitRunEnd(s, i + 1) ELSE i - 1

\* strings.Replace(s, old, "", 1): s without the first occurrence of old
RemoveFirst(s, old) ==
  LET i == Index(s, old)
  IN IF i = 0 \/ old = "" THEN s
     ELSE SubSeq(s, 1, i - 1) \o SubSeq(s, i + Len(old), Len(s))

\* regexp `^(\d+)(.*)$` FindStringSubmatch: [matched, version, pre]; "." takes
\* no line break and "$" is the end of the text, so a patch with a line break
\* has no match
patchSubmatch(patch) ==
  LET e == DigitRunEnd(patch, 1)
  IN IF e = 0 \/ Contains(patch, "\n") THEN [matched |-> FALSE, version |-> "", pre |-> ""]
     ELSE [matched |-> TRUE, version |-> SubSeq(patch, 1, e),
           pre |-> SubSeq(patch, e + 1, Len(patch))]

\* mutation: "-beta" is cut off with the length of "-alpha"
getPythonPrePrefix_BetaOffset(preVersion) ==
  CASE HasPrefix(preVersion, "-dev") ->
         [prefix |-> "dev", remaining |-> SubSeq(preVersion, 5, Len(preVersion))]
    [] HasPrefix(preVersion, "-alpha") ->
         [prefix |-> "a", remaining |-> SubSeq(preVersion, 7, Len(preVersion))]
    [] HasPrefix(preVersion, "-beta") ->
         [prefix |-> "b", remaining |-> SubSeq(preVersion, 7, Len(preVersion))]
    [] HasPrefix(preVersion, "-rc") ->
         [prefix |-> "rc", remaining |-> SubSeq(preVersion, 4, Len(preVersion))]
    [] OTHER -> [prefix |-> "", remaining |-> preVersion]

\* getPythonPrePrefix: [prefix, remaining]
getPythonPrePrefix(preVersion) ==
  CASE HasPrefix(preVersion, "-dev") ->
         [prefix |-> "dev", remaining |-> SubSeq(preVersion, 5, Len(preVersion))]
    [] HasPrefix(preVersion, "-alpha") ->
         [prefix |-> "a", remaining |-> SubSeq(preVersion, 7, Len(preVersion))]
    [] HasPrefix(preVersion, "-beta") ->
         [prefix |-> "b", remaining |-> SubSeq(preVersion, 6, Len(preVersion))]
    [] HasPrefix(preVersion, "-rc") ->
         [prefix |-> "rc", remaining |-> SubSeq(preVersion, 4, Len(preVersion))]
    [] OTHER -> [prefix |-> "", remaining |-> preVersion]

\* regexp `\+[0-9a-f]{8}\b`: the positions at which a match starts
hashMatchStarts(s) ==
  {i \in 1..(Len(s) - 8) :
     /\ Ch(s, i) = "+"
     /\ containsOnly(SubSeq(s, i + 1, i + 8), HexChars)
     /\ ~IsWordAt(s, i + 9)}

\* version.go 212-217: remove hash; FindAllString(remaining, 5) keeps the first
\* five matches, the last of them is removed at its first occurrence
removeHash(remaining) ==
  LET starts == hashMatchStarts(remaining)
      kept == {i \in starts : Cardinality({j \in starts : j < i}) < 5}
  IN IF kept = {} THEN remaining
     ELSE LET last == CHOOSE i \in kept : \A j \in kept : j <= i
          IN RemoveFirst(remaining, SubSeq(remaining, last, last + 8))

\* regexp `\W(\d+)(\W|$)` FindStringSubmatch: [matched, num], leftmost match
numSubmatch(s) ==
  LET starts == {i \in 1..(Len(s) - 1) :
                   /\ ~IsWordAt(s, i)
                   /\ IsDigitAt(s, i + 1)
                   /\ ~IsWordAt(s, DigitRunEnd(s, i + 1) + 1)}
  IN IF starts = {} THEN [matched |-> FALSE, num |-> ""]
     ELSE LET i == CHOOSE k \in starts : \A j \in starts : k <= j
          IN [matched |-> TRUE, num |-> SubSeq(s, i + 1, DigitRunEnd(s, i + 1))]

\* mutation: the dirty marker is put back with the separator of the generic
\* string
getPythonPreVersion_DirtyDot(preVersion) ==
  IF preVersion = "" THEN ""
  ELSE LET pp == getPythonPrePrefix(preVersion)
           isDirty == Contains(preVersion, "dirty")
           rem1 == IF isDirty THEN RemoveFirst(pp.remaining, "dirty") ELSE pp.remaining
           nums == numSubmatch(removeHash(rem1))
           pythonPreSuffix == IF nums.matched THEN nums.num ELSE "0"
           pythonPreVersion == IF pp.prefix # "" THEN pp.prefix \o pythonPreSuffix ELSE ""
       IN pythonPreVersion \o (IF isDirty THEN ".dirty" ELSE "")

\* getPythonPreVersion (its error result is always nil)
getPythonPreVersion(preVersion) ==
  IF preVersion = "" THEN ""
  ELSE LET pp == getPythonPrePrefix(preVersion)
           isDirty == Contains(preVersion, "dirty")
           rem1 == IF isDirty THEN RemoveFirst(pp.remaining, "dirty") ELSE pp.remaining
           rem2 == removeHash(rem1)
           nums == numSubmatch(rem2)
           pythonPreSuffix == IF nums.matched THEN nums.num ELSE "0"
           pythonPreVersion == IF pp.prefix # "" THEN pp.prefix \o pythonPreSuffix ELSE ""
       IN pythonPreVersion \o (IF isDirty THEN "+dirty" ELSE "")

\* convertPatchToPython
convertPatchToPython(patch) ==
  LET m == patchSubmatch(patch)
  IN IF ~m.matched THEN patch ELSE m.version \o getPythonPreVersion(m.pre)

\* s with every character in the domain of escapes replaced by its escape
RECURSIVE Escaped(_, _)
Escaped(s, escapes) ==
  IF s = "" THEN ""
  ELSE (IF Ch(s, 1) \in DOMAIN escapes THEN escapes[Ch(s, 1)] ELSE Ch(s, 1))
         \o Escaped(SubSeq(s, 2, Len(s)), escapes)

\* fmt.Sprintf("%q", s), which is strconv.Quote(s): the double quote, the
\* backslash and the control characters are written as escapes
Quote(s) ==
  "\"" \o Escaped(s, ("\"" :> "\\\"") @@ ("\\" :> "\\\\") @@ ("\t" :> "\\t")
                        @@ ("\n" :> "\\n") @@ ("\f" :> "\\f") @@ ("\r" :> "\\r")) \o "\""

\* mutation: a second leading "v" is stripped as well
normaliseVersion_TrimLeft(v) == TrimPrefix(TrimPrefix(v, "v"), "v")

\* version.go 50: strip leading "v" if present
normaliseVersion(v) == TrimPrefix(v, "v")

\* mutation: the version is split at every "."
versionParts_SplitAll(normalised) == Split(normalised, ".")

\* version.go 52: at most three parts
versionParts(normalised) == SplitN(normalised, ".", 3)

\* mutation: the Go version is the generic version, without "v"
languageVersionsOf_GoBare(genericVersion, pythonVersion) ==
  [SemVer |-> genericVersion, Python |-> pythonVersion,
   JavaScript |-> "v" \o genericVersion, DotNet |-> genericVersion,
   Go |-> genericVersion]

\* version.go 67-77: the five strings from the generic and the Python version
languageVersionsOf(genericVersion, pythonVersion) ==
  [SemVer |-> genericVersion, Python |-> pythonVersion,
   JavaScript |-> "v" \o genericVersion, DotNet |-> genericVersion,
   Go |-> "v" \o genericVersion]

\* CalculateFromString: [ok, lv, err]
CalculateFromString(v) ==
  LET normalised == normaliseVersion(v)
      parts == versionParts(normalised)
  IN IF Len(parts) # 3
     THEN [ok |-> FALSE, lv |-> NoLanguageVersions,
           err |-> "version must have exactly 3 parts: " \o Quote(v)]
     ELSE LET genericVersion == parts[1] \o "." \o parts[2] \o "." \o parts[3]
              pythonVersion == parts[1] \o "." \o parts[2] \o "."
                                 \o convertPatchToPython(parts[3])
          IN [ok |-> TRUE, err |-> "",
              lv |-> languageVersionsOf(genericVersion, pythonVersion)]

\* GenerateFallbackVersion
GenerateFallbackVersion ==
  [SemVer |-> "0.0.0-dev", Python |-> "0.0.0.dev0", JavaScript |-> "v0.0.0-dev",
   DotNet |-> "0.0.0-dev", Go |-> "v0.0.0-dev"]

(***************************************************************************)
(* cmd/main.go: the command line program.                                  *)
(***************************************************************************)
\* strings.ToLower on ASCII text
RECURSIVE ToLower(_)
ToLower(s) ==
  IF Len(s) = 0 THEN ""
  ELSE LET c == Ch(s, 1)
           u == Index(UpperChars, c)
       IN (IF u = 0 THEN c ELSE Ch(LowerChars, u)) \o ToLower(SubSeq(s, 2, Len(s)))

\* getVersionOutput: the string of the chosen language
getVersionOutput(versions, language) ==
  LET l == ToLower(language)
  IN IF l \in {"generic", "semver"} THEN versions.SemVer
     ELSE IF l = "python" THEN versions.Python
     ELSE IF l \in {"javascript", "js", "node"} THEN versions.JavaScript
     ELSE IF l \in {"dotnet", ".net", "csharp"} THEN versions.DotNet
     ELSE IF l \in {"go", "golang"} THEN versions.Go
     ELSE versions.SemVer

\* json.NewEncoder(os.Stdout).Encode(versions): one object with the json names
\* of LanguageVersions in field order, followed by a line break
\* a string is written between double quotes with the escapes of
\* encoding/json: the double quote, the backslash, the control characters,
\* and "<", ">", "&" as \u003c, \u003e, \u0026 (SetEscapeHTML is on)
jsonEncode(versions) ==
  LET string(s) ==
        "\"" \o Escaped(s, ("\"" :> "\\\"") @@ ("\\" :> "\\\\") @@ ("\t" :> "\\t")
                              @@ ("\n" :> "\\n") @@ ("\f" :> "\\f") @@ ("\r" :> "\\r")
                              @@ ("<" :> "\\u003c") @@ (">" :> "\\u003e")
                              @@ ("&" :> "\\u0026")) \o "\""
  IN "{" \o string("semver") \o ":" \o string(versions.SemVer)
         \o "," \o string("python") \o ":" \o string(versions.Python)
         \o "," \o string("javascript") \o ":" \o string(versions.JavaScript)
         \o "," \o string("dotnet") \o ":" \o string(versions.DotNet)
         \o "," \o string("go") \o ":" \o string(versions.Go) \o "}" \o "\n"

\* fmt.Println
Println(s) == s \o "\n"

\* what calculateVersion writes for a LanguageVersions: JSON, or one language
printVersions(versions, c) ==
  IF c.JSON THEN jsonEncode(versions)
  ELSE Println(getVersionOutput(versions, c.Language))

\* cmd/main.go 15: the version of the program, "dev" unless set by the build
Version == "dev"

\* cmd/main.go 152-163: the argument looks like a version string: it has a
\* dot, a digit after an optional "v", and at least three parts between dots
isVersionString(input) ==
  /\ Contains(input, ".")
  /\ LET trimmed == TrimPrefix(input, "v")
     IN /\ Len(trimmed) > 0
        /\ Contains(DigitChars, Ch(trimmed, 1))
        /\ Len(Split(trimmed, ".")) >= 3

\* the directory that holds no repository, and the one that does
NonGitDir == "non-git"

RepoDir == "repo"

\* vers.OpenRepository: git.PlainOpenWithOptions succeeds on the repository
OpenRepository(path) == [ok |-> path = RepoDir]

(***************************************************************************)
(* Inputs: repositories and Options.                                       *)
(***************************************************************************)
\* tag names of the tests, and names that exercise every prerelease kind
TagNames ==
  {"v1.0.0", "v0.2.3", "v1.0.0-alpha.1", "v1.0.0-alpha", "v2.0.0-beta.1",
   "v1.2.0-rc.1", "v0.1.0-dev.2", "sdk/v2.0.0", "mod/v0.0.1", "latest",
   "v1.0.0-preview.1", "v1.0.0-beta.x"}

\* names for the visibility and filter policies
PolicyTagNames ==
  {"v1.0.0", "v1.0.0-alpha.1", "v2.0.0-beta.1", "v1.2.0-rc.1", "v0.1.0-dev.2",
   "sdk/v2.0.0"}

\* names for the merge graphs
GraphTagNames == {"v1.0.0", "v2.0.0"}

\* all tag sets of at most k tags with distinct names from `names`, on commits 1..n
TagSets(names, n, k, kinds) ==
  UNION {{{[name |-> nm, target |-> f[nm].c, annotated |-> f[nm].a] : nm \in S} :
            f \in [S -> [c : 1..n, a : kinds]]} :
         S \in {T \in SUBSET names : Cardinality(T) <= k}}

\* linear history 1 <- 2 <- ... <- n
Chain(n) == [c \in 1..n |-> IF c = 1 THEN <<>> ELSE <<c - 1>>]

\* the parent lists a commit c can have: at most two distinct older commits
ParentLists(c) ==
  {<<>>} \cup {<<a>> : a \in 1..(c - 1)}
         \cup {p \in (1..(c - 1)) \X (1..(c - 1)) : p[1] # p[2]}

\* all commit graphs on 1..n
RECURSIVE Graphs(_)
Graphs(n) ==
  IF n = 0 THEN {<<>>}
  ELSE {Append(g, p) : g \in Graphs(n - 1), p \in ParentLists(n)}

\* the commits of graph g reachable from the commits of frontier
RECURSIVE Closure(_, _, _)
Closure(g, frontier, acc) ==
  LET nxt == UNION {{g[c][i] : i \in 1..Len(g[c])} : c \in frontier} \ acc
  IN IF nxt = {} THEN acc ELSE Closure(g, nxt, acc \cup nxt)

\* the commit graphs on 1..n in which every commit is an ancestor of commit n
Histories(n) == {g \in Graphs(n) : Closure(g, {n}, {n}) = 1..n}

CleanTree == [storer |-> "memory", state |-> "clean", fault |-> "none"]
ModifiedTree == [storer |-> "memory", state |-> "modified", fault |-> "none"]

\* working trees: every state on both storages, and each failure of the detector
Worktrees ==
  [storer : {"filesystem", "memory"},
   state : {"clean", "modified", "staged", "untracked"}, fault : {"none"}]
  \cup [storer : {"filesystem"}, state : {"clean"},
        fault : {"refresh", "diffExit", "diffErr", "worktree"}]
  \cup [storer : {"memory"}, state : {"clean"}, fault : {"status", "worktree"}]

\* the library is called directly, not through the command line program
NoCLI == [Commitish |-> "", Language |-> "", Repo |-> "", VersionPrefix |-> "",
          OmitCommitHash |-> FALSE, IsPreRelease |-> FALSE, TagPattern |-> "",
          JSON |-> FALSE, ShowVersion |-> FALSE, invoked |-> FALSE]

DefaultOptions ==
  [Repository |-> "repo", Commitish |-> "HEAD", OmitCommitHash |-> FALSE,
   ReleasePrefix |-> "", IsPreRelease |-> FALSE, TagFilter |-> FilterNil,
   TagPattern |-> ""]

StartLocals ==
  /\ pc = "Calculate"
  /\ versionString = ""
  /\ cli = NoCLI
  /\ cwd = "repo"
  /\ revision = 0
  /\ tagRef = ""
  /\ walker = NewCommitPreorderIter(0)
  /\ baseVersion = ""
  /\ isExact = FALSE
  /\ version = NoVersion
  /\ components = [Semver |-> NoVersion, Dirty |-> FALSE, ShortHash |-> "",
                   Timestamp |-> 0, IsExact |-> FALSE]
  /\ result = NoLanguageVersions
  /\ err = ""
  /\ commands = <<>>
  /\ stdout = ""
  /\ exitErr = ""

\* repositories with many kinds of tags, under every visibility and filter policy
InitPolicy ==
  /\ storerFault = "none"
  /\ \E n \in 1..MaxCommits :
       /\ parents = Chain(n)
       /\ head \in 1..n
       /\ tags \in TagSets(PolicyTagNames, n, MaxTags, {FALSE})
  /\ worktree = CleanTree
  /\ \E pre \in BOOLEAN, flt \in {"nil", "noSlash", "^sdk/", "^v"} :
       opts = [DefaultOptions EXCEPT
                 !.IsPreRelease = pre,
                 !.TagFilter = IF flt = "noSlash" THEN FilterNoSlash ELSE FilterNil,
                 !.TagPattern = IF flt \in {"nil", "noSlash"} THEN "" ELSE flt]

\* one tag of any name, under every formatting option and a clean or dirty tree
InitFormat ==
  /\ storerFault = "none"
  /\ \E n \in 1..MaxCommits :
       /\ parents = Chain(n)
       /\ head = n
       /\ tags \in TagSets(TagNames, n, 1, BOOLEAN)
  /\ worktree \in {CleanTree, ModifiedTree}
  /\ \E pre \in BOOLEAN, omit \in BOOLEAN,
        prefix \in {"", "3.1.4", "2.0.0-rc.5", "3.x"} :
       opts = [DefaultOptions EXCEPT
                 !.IsPreRelease = pre, !.OmitCommitHash = omit,
                 !.ReleasePrefix = prefix]

\* every history of the head commit, merges included, with plain release tags
InitGraph ==
  /\ storerFault = "none"
  /\ \E n \in 1..MaxGraphCommits :
       /\ parents \in Histories(n)
       /\ head = n
       /\ tags \in TagSets(GraphTagNames, n, MaxTags, {FALSE})
  /\ worktree = CleanTree
  /\ opts = DefaultOptions

\* a single commit, under every input error and every working tree
InitInputs ==
  /\ storerFault = "none"
  /\ parents = Chain(1)
  /\ head = 1
  /\ tags \in TagSets({"v1.0.0"}, 1, 1, {FALSE})
  /\ worktree \in Worktrees
  /\ \E rp \in {"repo", "nil"}, ci \in {"", "HEAD", "nosuch"},
        pat \in {"", "^v", "[invalid regex"}, flt \in {FilterNil, FilterNoSlash} :
       opts = [DefaultOptions EXCEPT
                 !.Repository = rp, !.Commitish = ci, !.TagPattern = pat,
                 !.TagFilter = flt]

\* the pattern of README.md and examples/advanced: only tags like v1.2.3
ReleaseTagPattern == "^v\\d+\\.\\d+\\.\\d+$"

\* tag patterns with classes, repetitions, alternation and groups, and
\* patterns that are not regular expressions
TagPatterns ==
  {ReleaseTagPattern, "v.", "[a-z]+", "^v|^sdk/", "^(v|sdk/nodejs/v)[0-9]", "/v\\d{1,2}\\.",
   "(?i)^V", "[[:alpha:]]+/", "\\Qv1.\\E", "(", "a**", "{2}", "\\1"}

PatternTagNames ==
  {"v1.0.0", "v0.2.3", "v1.0.0-alpha.1", "src/v1.0.0", "vbeta", "sdk/nodejs/v2.1.0",
   "latest", "V2.0.0"}

\* one commit with tags of many shapes, under every tag pattern
InitPatterns ==
  /\ storerFault = "none"
  /\ parents = Chain(1)
  /\ head = 1
  /\ tags \in TagSets(PatternTagNames, 1, MaxTags, {FALSE})
  /\ worktree = CleanTree
  /\ \E pre \in BOOLEAN, pat \in TagPatterns :
       opts = [DefaultOptions EXCEPT !.IsPreRelease = pre, !.TagPattern = pat]

\* the histories of the revisions: chains of one to three commits and a merge
\* of two roots
RevisionHistories == {Chain(1), Chain(2), Chain(3), <<<<>>, <<>>, <<2, 1>>>>}

\* revisions: HEAD and its ancestors, the branch, tags by short and full
\* name, commit ids whole and abbreviated, names of nothing, "@" for HEAD,
\* counts written with zeros and out of range, a commit by its message, the
\* suffixes that name a type, a reflog entry or a path, a count of ten
\* digits, and a name that ends with a line feed
Revisions ==
  {"HEAD", "HEAD~1", "HEAD^", "HEAD~2", "HEAD^2", "master", "refs/heads/master",
   "v1.2.3", "refs/tags/v1.2.3", "v1.2.3~1", HashString(1), SubSeq(HashString(1), 1, 8),
   "nosuch", "1f3", "@", "@~1", "HEAD~00001", "HEAD^00000", "HEAD^3", "HEAD^{commit}",
   "HEAD^{}~1", "HEAD^{/Initial}", "HEAD^{/(}", "HEAD@{1}", "@{1}", "HEAD:path",
   "HEAD~1000000000", "HEAD\n"}

\* the options of the README example: everything set
ReadmeOptions ==
  [DefaultOptions EXCEPT !.OmitCommitHash = TRUE, !.ReleasePrefix = "2.0.0",
                         !.IsPreRelease = TRUE, !.TagPattern = ReleaseTagPattern]

\* every revision on every history, the head being the last commit
InitRevisions ==
  /\ storerFault = "none"
  /\ parents \in RevisionHistories
  /\ head = Len(parents)
  /\ tags \in TagSets({"v1.2.3", "v1.0.0"}, Len(parents), 2, {FALSE})
  /\ \E ci \in Revisions, o \in {DefaultOptions, ReadmeOptions} :
       /\ opts = [o EXCEPT !.Commitish = ci]
       /\ worktree \in (IF o = DefaultOptions THEN {CleanTree} ELSE {CleanTree, ModifiedTree})

\* the version strings handed to CalculateFromString: with and without "v",
\* every prerelease kind with and without ordinal, dirty and hash tails, and
\* texts with fewer than three parts, with a line end, and with characters
\* that a quoted or JSON string escapes
FromStringHeads == {"1.2.3", "0.0.0", "10.20.30", "01.2.3", "a.b.3", "..3", "1.2.", "1.2.x"}

FromStringKinds == {"alpha", "beta", "rc", "dev", "preview"}

FromStringOrdinals == {"0", "1", "42", "007"}

\* tails with build hashes: of digits only, before and after the ordinal,
\* with a dirty marker, followed by a word character, and more than one
HashTails ==
  {"-alpha+12345678", "-rc.1+a1b2c3d4", "-alpha+12345678.dirty",
   "-beta.2+12345678", "-dev.3+abcdef12.dirty", "-alpha.dirty+12345678",
   "-rc+12345678_1", "-beta+12345678x.5", "-alpha+1234567",
   "-alpha+11111111+22222222", "-rc.4+11111111+22222222"}

FromStringTails ==
  {"", "-alpha1", "+dirty", ".4", "-alpha.x", "-rc.1.2", "+1f3a9c2e"}
    \cup HashTails
    \cup {"-" \o k : k \in FromStringKinds}
    \cup {"-" \o k \o "." \o n \o t :
            k \in FromStringKinds, n \in FromStringOrdinals,
            t \in {"", "+dirty", "+1f3a9c2e", "+1f3a9c2e.dirty"}}

VersionStrings ==
  {p \o h \o t : p \in {"", "v", "vv"}, h \in FromStringHeads, t \in FromStringTails}
    \cup {"", "v", "1", "1.2", "v1.2", "vv1.2", "1.", "abc", "v.1", "1.2-alpha.1",
          "1.2.3\n", "1.2.3-alpha.1\n", "1.2.3-<&>", "1.2.3-\"rc\".1", "1.2.3-a\\b\t"}

\* the state shared by the entry points that take no repository
NoRepository ==
  /\ storerFault = "none"
  /\ cli = NoCLI
  /\ cwd = "repo"
  /\ parents = Chain(1)
  /\ head = 1
  /\ tags = {}
  /\ worktree = CleanTree
  /\ opts = DefaultOptions
  /\ revision = 0
  /\ tagRef = ""
  /\ walker = NewCommitPreorderIter(0)
  /\ baseVersion = ""
  /\ isExact = FALSE
  /\ version = NoVersion
  /\ components = [Semver |-> NoVersion, Dirty |-> FALSE, ShortHash |-> "",
                   Timestamp |-> 0, IsExact |-> FALSE]
  /\ result = NoLanguageVersions
  /\ err = ""
  /\ commands = <<>>
  /\ stdout = ""
  /\ exitErr = ""

\* a call of CalculateFromString on each version string
InitFromString ==
  /\ pc = "CalculateFromString"
  /\ versionString \in VersionStrings
  /\ NoRepository

\* a call of GenerateFallbackVersion
InitFallback ==
  /\ pc = "GenerateFallbackVersion"
  /\ versionString = ""
  /\ NoRepository

\* the reads of the store that can fail, by the place of the call: inside
\* Repository.ResolveRevision (git.go 30), CommitObject in
\* getVersionComponents (35), in determineBaseVersion (90) and in
\* mostRecentTag (174), Repository.Tags in isExactTag called from
\* determineBaseVersion (96, 124) and from the walk (183, 124),
\* Repository.TagObject in isExactTag (147), and the read of the next commit
\* by walker.ForEach (182); with and without a later stage that would fail
\* too.  The reads of the walk fail on a chain and on a merge whose second
\* parent is also the parent of its first, the reads that resolve and load
\* the commit for a commitish that resolves and for one that does not.
InitFaults ==
  /\ storerFault \in {"resolveRevision", "commitObject", "determineBaseVersion", "tags",
                      "tagObject", "mostRecentTag", "walkTags", "walk"}
  /\ parents \in {Chain(2)} \cup
                  (IF storerFault \in {"tagObject", "walkTags", "walk"}
                   THEN {<<<<>>, <<1>>, <<2, 1>>>>} ELSE {})
  /\ head = Len(parents)
  /\ tags \in TagSets({"v1.0.0", "latest"}, 2, 1, {FALSE})
  /\ worktree \in {w \in Worktrees : w.state = "clean" /\ w.fault \in {"none", "status"}}
  /\ \E prefix \in {"", "3.x"},
        ci \in {""} \cup (IF storerFault \in {"resolveRevision", "commitObject"}
                          THEN {"nosuch"} ELSE {}) :
       opts = [DefaultOptions EXCEPT !.ReleasePrefix = prefix, !.Commitish = ci]

\* names with module prefixes of one and two levels, with a doubled "v", and
\* names that are not semantic versions
ModuleTagNames ==
  {"v0.0.0", "sdk/v2.1.0", "sdk/nodejs/v2.1.0", "vv1.0.0", "latest", "v1.2",
   "1.0.0", "v1.0.0"}

\* a linear history with such tags
InitNames ==
  /\ storerFault = "none"
  /\ \E n \in 1..MaxCommits :
       /\ parents = Chain(n)
       /\ head = n
       /\ tags \in TagSets(ModuleTagNames, n, MaxTags, {FALSE})
  /\ worktree = CleanTree
  /\ opts = DefaultOptions

\* the values of --language: the enum of the flag, and texts given in tests
Languages ==
  {"generic", "semver", "python", "javascript", "js", "node", "dotnet", "csharp",
   "go", "golang", "", "Python"}

\* the variables of Calculate and the output, before the program has run
StartCLILocals ==
  /\ opts = DefaultOptions
  /\ revision = 0
  /\ tagRef = ""
  /\ walker = NewCommitPreorderIter(0)
  /\ baseVersion = ""
  /\ isExact = FALSE
  /\ version = NoVersion
  /\ components = [Semver |-> NoVersion, Dirty |-> FALSE, ShortHash |-> "",
                   Timestamp |-> 0, IsExact |-> FALSE]
  /\ result = NoLanguageVersions
  /\ err = ""
  /\ commands = <<>>
  /\ stdout = ""
  /\ exitErr = ""

\* a run of the command line program: in the repository or in a plain
\* directory, named by --repo or by the working directory ("" when the
\* working directory cannot be read)
InitCLI ==
  /\ pc = "CLI.Run"
  /\ versionString = ""
  /\ storerFault = "none"
  /\ parents = Chain(1)
  /\ head = 1
  /\ tags \in TagSets({"v1.0.0", "latest"}, 1, 1, {FALSE})
  /\ worktree \in {w \in Worktrees : w.storer = "filesystem" /\ w.state \in {"clean", "modified"}
                                         /\ w.fault \in {"none", "diffErr"}}
  /\ \E dirs \in {<<RepoDir, NonGitDir>>, <<NonGitDir, RepoDir>>, <<"", RepoDir>>,
                  <<"", NonGitDir>>, <<"", "">>},
        ci \in {"", "nosuch"}, lang \in Languages, js \in BOOLEAN :
       /\ cwd = dirs[2]
       /\ cli = [Commitish |-> ci, Language |-> lang, Repo |-> dirs[1],
                 VersionPrefix |-> "", OmitCommitHash |-> FALSE, IsPreRelease |-> FALSE,
                 TagPattern |-> "", JSON |-> js, ShowVersion |-> FALSE, invoked |-> TRUE]
  /\ StartCLILocals

\* the positional argument of the program: version strings with and without
\* "v" and prerelease, texts of two parts, texts that only look like a
\* version, and revisions
CLIArguments ==
  {"1.2.3", "v1.2.3", "1.2.3-alpha.1", "v2.0.0-rc.2+1f3a9c2e", "1.2.3.4", "1.2.x", "1..",
   "1.2", "v", "v.1.2", "abc.1.2", "", "HEAD", "master",
   "1.2.3\n", "1.2.3-<&>", "1.2.3-\"rc\".1", "1.2.3-a\\b\t"}

\* a run of the program, or a direct call of convertVersion or showVersion,
\* with an argument of any shape, in a repository with a tag v1.2.3 or in a
\* plain directory
InitCLIConvert ==
  /\ versionString = ""
  /\ storerFault = "none"
  /\ parents = Chain(1)
  /\ head = 1
  /\ tags = {[name |-> "v1.2.3", target |-> 1, annotated |-> FALSE]}
  /\ worktree = [storer |-> "filesystem", state |-> "clean", fault |-> "none"]
  /\ cwd \in {RepoDir, NonGitDir}
  /\ \E entry \in {<<"CLI.Run", FALSE>>, <<"CLI.Run", TRUE>>, <<"CLI.convertVersion", FALSE>>,
                   <<"CLI.showVersion", TRUE>>},
        ci \in CLIArguments, lang \in {"", "semver", "python", "js", "Go"}, js \in BOOLEAN :
       /\ pc = entry[1]
       /\ cli = [Commitish |-> ci, Language |-> lang, Repo |-> "",
                 VersionPrefix |-> "", OmitCommitHash |-> FALSE, IsPreRelease |-> FALSE,
                 TagPattern |-> "", JSON |-> js, ShowVersion |-> entry[2],
                 invoked |-> TRUE]
  /\ StartCLILocals

Init == \/ /\ (InitPolicy \/ InitFormat \/ InitGraph \/ InitInputs \/ InitFaults
                 \/ InitNames \/ InitPatterns \/ InitRevisions)
           /\ StartLocals
        \/ InitFromString
        \/ InitFallback
        \/ InitCLI
        \/ InitCLIConvert

(***************************************************************************)
(* Calculate, one action per stage.                                        *)
(***************************************************************************)
\* mutation: the error is recorded but the call goes on to the dirty check
Fail_NoReturn(msg) ==
  /\ pc' = "workTreeIsDirty"
  /\ err' = msg
  /\ result' = NoLanguageVersions

\* a stage returns an error: Calculate returns (nil, err)
Fail(msg) ==
  /\ pc' = "done"
  /\ err' = msg
  /\ result' = NoLanguageVersions

\* the name of the branch HEAD is on
BranchName == "master"

\* the commit a fully qualified reference points at, 0 when there is none
\* (an annotated tag is followed to the commit it tags)
ReferenceTarget(name) ==
  IF name = "HEAD" \/ name = "refs/heads/" \o BranchName THEN head
  ELSE IF \E t \in tags : RefNameString(t) = name
  THEN (CHOOSE t \in tags : RefNameString(t) = name).target
  ELSE 0

\* the commit of a short name, expanded with plumbing.RefRevParseRules in
\* their order, from rule number rule on; 0 when no rule finds one
RECURSIVE ResolveReference(_, _)
ResolveReference(name, rule) ==
  LET RefRevParseRules == <<"", "refs/", "refs/tags/", "refs/heads/">>
      found(c) == IF c # 0 THEN c ELSE ResolveReference(name, rule + 1)
  IN IF rule > Len(RefRevParseRules) THEN 0
     ELSE found(ReferenceTarget(RefRevParseRules[rule] \o name))

\* the commits whose id begins with the bytes written in hexadecimal as
\* evenHex and, when the text has one digit more, with the whole text
HashCandidates(text, evenHex) ==
  IF text = "" \/ ~containsOnly(evenHex, DigitChars \o "abcdefABCDEF") THEN {}
  ELSE {c \in DOMAIN parents :
          /\ HasPrefix(HashString(c), ToLower(evenHex))
          /\ Len(evenHex) # Len(text) => HasPrefix(HashString(c), text)}

\* the commit whose id is the text or begins with it, 0 when there is none
ResolveHash(text) ==
  LET found == HashCandidates(text, SubSeq(text, 1, 2 * (Len(text) \div 2)))
  IN IF found = {} THEN 0 ELSE CHOOSE c \in found : \A d \in found : c <= d

\* the commit n first parents above c, 0 when the history ends before
RECURSIVE FirstParentAncestor(_, _)
FirstParentAncestor(c, n) ==
  IF c = 0 \/ n = 0 THEN c
  ELSE IF Len(parents[c]) = 0 THEN 0
  ELSE FirstParentAncestor(parents[c][1], n - 1)

\* object.Commit.Message: the first commit is the "Initial commit" of
\* test_helpers.go, the others are numbered
CommitMessage(c) == IF c = 1 THEN "Initial commit" ELSE "Commit " \o FormatInt(c)

\* revision.scanner.scan, called until the text ends: the tokens of rev from
\* position i on, each [tok, lit, pos]; a word is a run of letters, a number
\* a run of digits, every other character is a token of its own, a space
\* (unicode.IsSpace: tab, line feed, vertical tab, form feed, carriage return,
\* blank) before a control character; three "eof" tokens end the list (scan
\* keeps answering eof)
RECURSIVE scan(_, _)
scan(rev, i) ==
  LET k == Code(Peek(rev, i))
      letter(j) == Code(Peek(rev, j)) \in (65..90) \cup (97..122)
      digit(j) == Code(Peek(rev, j)) \in 48..57
      end == IF letter(i)
             THEN CHOOSE e \in (i + 1)..(Len(rev) + 1) :
                    ~letter(e) /\ \A j \in i..(e - 1) : letter(j)
             ELSE IF digit(i)
             THEN CHOOSE e \in (i + 1)..(Len(rev) + 1) :
                    ~digit(e) /\ \A j \in i..(e - 1) : digit(j)
             ELSE i + 1
      tok == CASE k = 58 -> "colon" [] k = 126 -> "tilde" [] k = 94 -> "caret"
               [] k = 46 -> "dot" [] k = 47 -> "slash" [] k = 123 -> "obrace"
               [] k = 125 -> "cbrace" [] k = 45 -> "minus" [] k = 64 -> "at"
               [] k = 92 -> "aslash" [] k = 63 -> "qmark" [] k = 42 -> "asterisk"
               [] k = 91 -> "obracket" [] k = 33 -> "emark"
               [] k \in (9..13) \cup {32} -> "space"
               [] k \in (0..8) \cup (14..31) \cup {127} -> "control"
               [] k \in (65..90) \cup (97..122) -> "word"
               [] k \in 48..57 -> "number"
               [] OTHER -> "char"
      eof == [tok |-> "eof", lit |-> "", pos |-> Len(rev) + 1]
  IN IF i > Len(rev) THEN <<eof, eof, eof>>
     ELSE <<[tok |-> tok, lit |-> SubSeq(rev, i, end - 1), pos |-> i]>> \o scan(rev, end)

\* Parser.parseRef with Parser.checkRefFormat on the tokens T of rev from
\* token i on: [ok, item, next]; the name runs up to the first "@", ":",
\* "~", "^" or the end
parseRef(rev, T, i) ==
  LET e == CHOOSE j \in i..Len(T) :
             /\ T[j].tok \in {"eof", "at", "colon", "tilde", "caret"}
             /\ \A k \in i..(j - 1) : T[k].tok \notin {"eof", "at", "colon", "tilde", "caret"}
      \* the name read before token k
      buffer(k) == SubSeq(rev, T[i].pos, T[k].pos - 1)
      lock(k) == Len(buffer(k)) > 4 /\ SubSeq(buffer(k), Len(buffer(k)) - 4, Len(buffer(k))) = ".lock"
      ok == /\ \A k \in i..(e - 1) :
                 T[k].tok \notin {"aslash", "space", "control", "qmark", "asterisk", "obracket"}
            /\ T[i].tok \notin {"dot", "slash"}
            /\ T[e - 1].tok \notin {"dot", "slash"}
            /\ \A k \in (i + 1)..(e - 1) :
                 /\ ~(T[k].tok = "dot" /\ T[k - 1].tok \in {"slash", "dot"})
                 /\ ~(T[k].tok = "slash" /\ T[k - 1].tok = "slash")
            /\ \A k \in (i + 1)..e : (T[k].tok = "slash" \/ k = e) => ~lock(k)
  IN [ok |-> ok, next |-> e,
      item |-> [kind |-> "ref", name |-> buffer(e), n |-> 0, negate |-> FALSE]]

\* Parser.parseAt on the tokens after "@": [ok, item, next].  "@" alone is
\* the reference HEAD; "@{...}" is the upstream, the push target, an entry of
\* the reflog, an earlier checkout, or a date that time.Parse has to accept
\* in the layout 2006-01-02T15:04:05Z
parseAt(rev, T, i) ==
  LET tok == T[i + 1]
      nextTok == T[i + 2]
      item(kind) == [kind |-> kind, name |-> "", n |-> 0, negate |-> FALSE]
      closes == {j \in (i + 2)..Len(T) : T[j].tok \in {"cbrace", "eof"}}
      close == CHOOSE j \in closes : \A k \in closes : j <= k
      date == SubSeq(rev, tok.pos, T[close].pos - 1)
      num(a, b) == ParseUint(SubSeq(date, a, b))
      \* the hour may have one digit or two; h is the position of its end
      h == IF Code(Peek(date, 13)) \in 48..57 THEN 13 ELSE 12
      leap == num(1, 4) % 4 = 0 /\ (num(1, 4) % 100 # 0 \/ num(1, 4) % 400 = 0)
      days == IF num(6, 7) = 2 THEN (IF leap THEN 29 ELSE 28)
              ELSE IF num(6, 7) \in {4, 6, 9, 11} THEN 30 ELSE 31
      dateOK ==
        /\ regexpMatchString("^\\d{4}-\\d{2}-\\d{2}T\\d{1,2}:\\d{2}:\\d{2}([.,]\\d+)?Z$", date)
        /\ num(6, 7) \in 1..12
        /\ num(9, 10) \in 1..days
        /\ num(12, h) < 24
        /\ num(h + 2, h + 3) < 60
        /\ num(h + 5, h + 6) < 60
  IN IF T[i].tok # "obrace"
     THEN [ok |-> TRUE, next |-> i,
           item |-> [kind |-> "ref", name |-> "HEAD", n |-> 0, negate |-> FALSE]]
     ELSE IF tok.tok = "word" /\ tok.lit \in {"u", "upstream", "push"} /\ nextTok.tok = "cbrace"
     THEN [ok |-> TRUE, next |-> i + 3, item |-> item("at")]
     ELSE IF tok.tok = "number" /\ nextTok.tok = "cbrace"
     THEN [ok |-> TRUE, next |-> i + 3, item |-> item("at")]
     ELSE IF tok.tok = "minus" /\ nextTok.tok = "number"
     THEN [ok |-> T[i + 3].tok = "cbrace", next |-> i + 4, item |-> item("atCheckout")]
     ELSE [ok |-> T[close].tok = "cbrace" /\ dateOK, next |-> close + 1, item |-> item("at")]

\* Parser.parseCaretBraces on the tokens after "^{": [ok, item, next].  Each
\* pass reads two tokens and gives the second back unless it belongs to the
\* first: "^{commit}" and its like name a type, "^{}" is "^{tag}" (and the
\* token after it is lost), "^{/re}" is a regular expression on commit
\* messages, negated after "/!-"
RECURSIVE parseCaretBraces(_, _, _, _, _)
parseCaretBraces(T, i, re, negate, start) ==
  LET tok == T[i].tok
      lit == T[i].lit
      nextTok == T[i + 1].tok
      item(kind) == [kind |-> kind, name |-> re, n |-> 0, negate |-> negate]
      error == [ok |-> FALSE, next |-> i, item |-> item("")]
  IN IF /\ tok = "word" /\ nextTok = "cbrace"
        /\ lit \in {"commit", "tree", "blob", "tag", "object"}
     THEN [ok |-> TRUE, next |-> i + 2, item |-> item("caretType")]
     ELSE IF re = "" /\ tok = "cbrace"
     THEN [ok |-> TRUE, next |-> i + 2, item |-> item("caretType")]
     ELSE IF re = "" /\ tok = "emark" /\ nextTok = "emark"
     THEN parseCaretBraces(T, i + 2, re \o lit, negate, FALSE)
     ELSE IF re = "" /\ tok = "emark" /\ nextTok = "minus"
     THEN parseCaretBraces(T, i + 2, re, TRUE, FALSE)
     ELSE IF re = "" /\ tok = "emark" THEN error
     ELSE IF re = "" /\ tok = "slash" THEN parseCaretBraces(T, i + 1, re, negate, FALSE)
     ELSE IF (tok # "slash" /\ start) \/ tok = "eof" THEN error
     ELSE IF tok # "cbrace" THEN parseCaretBraces(T, i + 1, re \o lit, negate, FALSE)
     ELSE [ok |-> regexpCompileOK(re), next |-> i + 1, item |-> item("caretReg")]

\* Parser.parseColonSlash on the tokens after ":/": the regular expression
\* runs to the end of the revision
RECURSIVE parseColonSlash(_, _, _, _)
parseColonSlash(T, i, re, negate) ==
  LET tok == T[i].tok
      nextTok == T[i + 1].tok
      item == [kind |-> "colonReg", name |-> re, n |-> 0, negate |-> negate]
  IN IF tok = "emark" /\ nextTok = "emark" THEN parseColonSlash(T, i + 2, re \o T[i].lit, negate)
     ELSE IF re = "" /\ tok = "emark" /\ nextTok = "minus" THEN parseColonSlash(T, i + 2, re, TRUE)
     ELSE IF re = "" /\ tok = "emark" THEN [ok |-> FALSE, next |-> i, item |-> item]
     ELSE IF tok = "eof" THEN [ok |-> regexpCompileOK(re), next |-> i, item |-> item]
     ELSE parseColonSlash(T, i + 1, re \o T[i].lit, negate)

\* Parser.validateFullRevision: a reference stands first and only there, "~"
\* and "^" need it, and "@{...}" and ":" allow little around them; the check
\* ends at the first "@{...}" or ":" item
validateFullRevision(items) ==
  LET n == Len(items)
      hasReference == n > 0 /\ items[1].kind = "ref"
      final == {"at", "atCheckout", "colonReg", "colonPath", "colonStage"}
      stops == {i \in 1..n : items[i].kind \in final}
      stop == IF stops = {} THEN n + 1 ELSE CHOOSE i \in stops : \A j \in stops : i <= j
  IN /\ \A i \in 1..(stop - 1) :
          /\ items[i].kind = "ref" => i = 1
          /\ items[i].kind \in {"tilde", "caret", "caretReg"} => hasReference
     /\ stop <= n =>
          CASE items[stop].kind = "at" -> n = 1 \/ (hasReference /\ n = 2)
            [] items[stop].kind = "colonPath" -> (stop = n /\ hasReference) \/ n = 1
            [] OTHER -> n = 1

\* Parser.Parse: the items of the revision from token i on, [ok, items];
\* parseTilde, parseCaret with its count of 0, 1 or 2, parseColon (":/text"
\* is a regular expression, ":n:path" a path of the index, ":path" a path of
\* the tree, each to the end of the revision), and at the end
\* validateFullRevision
RECURSIVE Parse(_, _, _, _)
Parse(rev, T, i, items) ==
  LET tok == T[i].tok
      next == T[i + 1]
      \* strconv.Atoi with its error dropped: the number; the integers here
      \* end at 2147483647, which stands for every count above it (such a
      \* count is, like it, above 2 and beyond the end of every history)
      zeros == CHOOSE z \in 0..Len(next.lit) :
                 /\ \A j \in 1..z : Peek(next.lit, j) = "0"
                 /\ Peek(next.lit, z + 1) # "0"
      digits == Drop(next.lit, zeros)
      high == ParseUint(SubSeq(digits, 1, 9))
      fits == \/ Len(digits) < 10
              \/ /\ Len(digits) = 10
                 /\ high < 214748364 \/ (high = 214748364 /\ DigitVal(Peek(digits, 10)) <= 7)
      atoi == IF fits THEN ParseUint(digits) ELSE 2147483647
      counted == next.tok = "number"
      item(kind, n) == [kind |-> kind, name |-> "", n |-> n, negate |-> FALSE]
      eof == CHOOSE j \in i..Len(T) : T[j].tok = "eof" /\ \A k \in i..(j - 1) : T[k].tok # "eof"
      stage == counted /\ T[i + 2].tok = "colon"
      more(r) == IF r.ok THEN Parse(rev, T, r.next, Append(items, r.item))
                 ELSE [ok |-> FALSE, items |-> <<>>]
      one(it, n) == Parse(rev, T, n, Append(items, it))
  IN CASE tok = "eof" -> [ok |-> validateFullRevision(items), items |-> items]
       [] tok = "at" -> more(parseAt(rev, T, i + 1))
       [] tok = "tilde" -> one(item("tilde", IF counted THEN atoi ELSE 1),
                               IF counted THEN i + 2 ELSE i + 1)
       [] tok = "caret" /\ next.tok = "obrace" -> more(parseCaretBraces(T, i + 2, "", FALSE, TRUE))
       [] tok = "caret" /\ next.tok # "obrace" ->
            IF counted /\ atoi > 2 THEN [ok |-> FALSE, items |-> <<>>]
            ELSE one(item("caret", IF counted THEN atoi ELSE 1), IF counted THEN i + 2 ELSE i + 1)
       [] tok = "colon" /\ next.tok = "slash" -> more(parseColonSlash(T, i + 2, "", FALSE))
       [] tok = "colon" /\ next.tok # "slash" ->
            one(item(IF stage THEN "colonStage" ELSE "colonPath", 0), eof)
       [] OTHER -> more(parseRef(rev, T, i))

\* the loop of Repository.ResolveRevision over the items, from commit c (0 is
\* none): a reference is a commit id or a name, "^n" a parent, "~n" the n-th
\* first parent, "^{/re}" the first commit in preorder whose message matches;
\* w is the walk of a "^{/re}" under way; the other items change nothing.
\* The result is 0 when the revision names no commit or the store fails to
\* read the commit of the reference.
RECURSIVE ResolveItems(_, _, _)
ResolveItems(items, c, w) ==
  LET item == Head(items)
      rest == Tail(items)
      byHash == ResolveHash(item.name)
      matches(nx) == regexpMatchString(item.name, CommitMessage(nx.c)) # item.negate
      walk(nx) == IF nx.eof THEN 0
                  ELSE IF matches(nx) THEN ResolveItems(rest, nx.c, <<>>)
                  ELSE ResolveItems(items, c, <<nx.w>>)
  IN IF items = <<>> THEN c
     ELSE CASE item.kind = "ref" ->
                 ResolveItems(rest, IF storerFault = "resolveRevision" THEN 0
                                    ELSE IF byHash # 0 THEN byHash
                                    ELSE ResolveReference(item.name, 1), <<>>)
            [] item.kind # "ref" /\ c = 0 -> 0
            [] item.kind = "caret" /\ c # 0 ->
                 IF item.n = 0 THEN ResolveItems(rest, c, <<>>)
                 ELSE IF Len(parents[c]) < item.n THEN 0
                 ELSE ResolveItems(rest, parents[c][item.n], <<>>)
            [] item.kind = "tilde" /\ c # 0 ->
                 ResolveItems(rest, FirstParentAncestor(c, item.n), <<>>)
            [] item.kind = "caretReg" /\ c # 0 ->
                 walk(walkerNext(parents, IF w = <<>> THEN NewCommitPreorderIter(c) ELSE w[1]))
            [] OTHER -> ResolveItems(rest, c, <<>>)

\* Repository.ResolveRevision: the commit a revision names, 0 when it fails:
\* the revision is empty, it does not parse, or it names nothing
ResolveRevision(rev) ==
  LET items(p) == IF p.ok THEN ResolveItems(p.items, 0, <<>>) ELSE 0
  IN IF rev = "" THEN 0 ELSE items(Parse(rev, scan(rev, 1), 1, <<>>))

\* mutation: the tag pattern is compiled before the repository is checked
CalculateEntry_PatternFirst ==
  /\ pc = "Calculate"
  /\ LET o1 == IF opts.Commitish = "" THEN [opts EXCEPT !.Commitish = "HEAD"] ELSE opts
         compiled == o1.TagPattern # "" /\ o1.TagFilter.kind = "nil"
     IN IF compiled /\ ~regexpCompileOK(o1.TagPattern)
        THEN Fail("invalid tag pattern") /\ opts' = o1
        ELSE IF opts.Repository = "nil"
        THEN Fail("repository is required") /\ UNCHANGED opts
        ELSE /\ opts' = IF compiled THEN [o1 EXCEPT !.TagFilter = FilterRegexp(o1.TagPattern)]
                        ELSE o1
             /\ pc' = "resolveRevision"
             /\ UNCHANGED <<err, result>>
  /\ UNCHANGED <<repoVars, cliVars, commands, revision, tagRef, walker, baseVersion, isExact, version,
                 components>>

\* version.go 18-36: repository check, default commitish, tag pattern
CalculateEntry ==
  /\ pc = "Calculate"
  /\ IF opts.Repository = "nil"
     THEN Fail("repository is required") /\ UNCHANGED opts
     ELSE LET o1 == IF opts.Commitish = "" THEN [opts EXCEPT !.Commitish = "HEAD"]
                    ELSE opts
          IN IF o1.TagPattern # "" /\ o1.TagFilter.kind = "nil"
             THEN IF ~regexpCompileOK(o1.TagPattern)
                  THEN Fail("invalid tag pattern") /\ opts' = o1
                  ELSE /\ opts' = [o1 EXCEPT !.TagFilter = FilterRegexp(o1.TagPattern)]
                       /\ pc' = "resolveRevision"
                       /\ UNCHANGED <<err, result>>
             ELSE /\ opts' = o1
                  /\ pc' = "resolveRevision"
                  /\ UNCHANGED <<err, result>>
  /\ UNCHANGED <<repoVars, cliVars, commands, revision, tagRef, walker, baseVersion, isExact, version,
                 components>>

\* git.go 30-38: resolve the commitish and load the commit
ResolveCommit ==
  /\ pc = "resolveRevision"
  /\ LET commit(r) ==
           IF r = 0
           THEN Fail("calculating version components: resolving commitish")
                /\ UNCHANGED revision
           ELSE IF storerFault = "commitObject"
           THEN Fail("calculating version components: getting commit object")
                /\ revision' = r
           ELSE /\ revision' = r
                /\ pc' = "determineBaseVersion"
                /\ UNCHANGED <<err, result>>
     IN commit(ResolveRevision(opts.Commitish))
  /\ UNCHANGED <<repoVars, cliVars, commands, opts, tagRef, walker, baseVersion, isExact, version,
                 components>>

\* git.go 87-105 and 174-180: the commit is read again, then the exact tag
\* check of determineBaseVersion; tags.ForEach visits the references in an
\* unspecified order and stops at the first match or at the first object
\* lookup that fails; without a match mostRecentTag reads the commit once
\* more and starts the walk.  The lookup that fails, if one does, is the
\* lookup of any reference that is not skipped, in this call of isExactTag or
\* in a later one.
DetermineBaseVersion ==
  /\ pc = "determineBaseVersion"
  /\ LET m == exactTagMatches(tags, revision, opts.IsPreRelease, opts.TagFilter)
     IN IF storerFault = "determineBaseVersion"
        THEN /\ Fail("calculating version components: determining base version: getting commit object")
             /\ UNCHANGED <<tagRef, baseVersion, isExact, walker>>
        ELSE IF storerFault = "tags"
        THEN /\ Fail("calculating version components: determining base version: checking exact tag: listing tags")
             /\ UNCHANGED <<tagRef, baseVersion, isExact, walker>>
        ELSE \/ /\ \E t \in tags :
                     /\ tagConsidered(t, opts.IsPreRelease, opts.TagFilter)
                     /\ tagPointsAt(t, revision, storerFault = "tagObject") = "err"
                /\ Fail("calculating version components: determining base version: checking exact tag")
                /\ UNCHANGED <<tagRef, baseVersion, isExact, walker>>
             \/ IF m = {} /\ storerFault = "mostRecentTag"
                THEN /\ Fail("calculating version components: determining base version: finding recent tag: getting commit object")
                     /\ UNCHANGED <<tagRef, baseVersion, isExact, walker>>
                ELSE IF m # {}
                THEN \E t \in m :
                       /\ tagRef' = RefNameString(t)
                       /\ baseVersion' = stripModuleTagPrefixes(t.name)
                       /\ isExact' = TRUE
                       /\ pc' = "parse"
                       /\ UNCHANGED <<walker, result, err>>
                ELSE /\ walker' = NewCommitPreorderIter(revision)
                     /\ pc' = "mostRecentTag"
                     /\ UNCHANGED <<tagRef, baseVersion, isExact, result, err>>
  /\ UNCHANGED <<repoVars, cliVars, commands, opts, revision, version, components>>

\* git.go 182-194 and 105-113: one iteration of walker.ForEach in mostRecentTag,
\* or its end.  The read that fails, if one does, is a read of a commit by
\* the walker, the listing of the tags in the callback, or the object lookup
\* of a reference that is not skipped, at any iteration; ForEach returns the
\* error and the call ends.  commitPreIterator.Next reads the next commit of
\* the stack before it tests whether the commit was seen, so that the read
\* can fail whenever a parent is left on the stack, one seen by another path
\* included, and also where the walk would otherwise end.
MostRecentTagStep ==
  /\ pc = "mostRecentTag"
  /\ LET step(nx) ==
           IF nx.eof
           THEN /\ baseVersion' = "0.0.0"
                /\ isExact' = FALSE
                /\ walker' = nx.w
                /\ pc' = "parse"
                /\ UNCHANGED <<tagRef, result, err>>
           ELSE \/ /\ storerFault = "walkTags"
                   /\ Fail("calculating version components: determining base version: finding recent tag: listing tags")
                   /\ UNCHANGED <<tagRef, baseVersion, isExact, walker>>
                \/ /\ \E t \in tags :
                        /\ tagConsidered(t, opts.IsPreRelease, opts.TagFilter)
                        /\ tagPointsAt(t, nx.c, storerFault = "tagObject") = "err"
                   /\ Fail("calculating version components: determining base version: finding recent tag")
                   /\ UNCHANGED <<tagRef, baseVersion, isExact, walker>>
                \/ LET m == exactTagMatches(tags, nx.c, opts.IsPreRelease, opts.TagFilter)
                   IN IF m # {}
                      THEN \E t \in m :
                             /\ tagRef' = RefNameString(t)
                             /\ baseVersion' = stripModuleTagPrefixes(t.name)
                             /\ isExact' = FALSE
                             /\ walker' = nx.w
                             /\ pc' = "parse"
                             /\ UNCHANGED <<result, err>>
                      ELSE /\ walker' = nx.w
                           /\ UNCHANGED <<tagRef, baseVersion, isExact, pc, result, err>>
     IN \/ /\ storerFault = "walk"
           /\ walker.start = 0
           /\ \E i \in 1..Len(walker.stack) : walker.stack[i] # <<>>
           /\ Fail("calculating version components: determining base version: finding recent tag")
           /\ UNCHANGED <<tagRef, baseVersion, isExact, walker>>
        \/ step(walkerNext(parents, walker))
  /\ UNCHANGED <<repoVars, cliVars, commands, opts, revision, version, components>>

\* mutation: a base version that does not parse is skipped, as if the
\* history had no tag
ParseAndBump_SkipUnparsable ==
  /\ pc = "parse"
  /\ LET p == semverParse(baseVersion)
     IN /\ version' = IF p.ok THEN bumpVersion(p.v, isExact)
                      ELSE bumpVersion(semverParse("0.0.0").v, FALSE)
        /\ pc' = "releasePrefix"
        /\ UNCHANGED <<err, result>>
  /\ UNCHANGED <<repoVars, cliVars, commands, opts, revision, tagRef, walker, baseVersion,
                 isExact, components>>

\* git.go 46-60: parse the base version and bump it
ParseAndBump ==
  /\ pc = "parse"
  /\ LET p == semverParse(baseVersion)
     IN IF ~p.ok
        THEN Fail("calculating version components: parsing base version")
             /\ UNCHANGED version
        ELSE /\ version' = bumpVersion(p.v, isExact)
             /\ pc' = "releasePrefix"
             /\ UNCHANGED <<err, result>>
  /\ UNCHANGED <<repoVars, cliVars, commands, opts, revision, tagRef, walker, baseVersion, isExact,
                 components>>

\* git.go 62-71: release prefix override
ReleasePrefixOverride ==
  /\ pc = "releasePrefix"
  /\ LET r == applyReleasePrefix(version, opts.ReleasePrefix)
     IN IF ~r.ok
        THEN Fail("calculating version components: parsing release prefix")
             /\ UNCHANGED version
        ELSE /\ version' = r.v
             /\ pc' = "workTreeIsDirty"
             /\ UNCHANGED <<err, result>>
  /\ UNCHANGED <<repoVars, cliVars, commands, opts, revision, tagRef, walker, baseVersion, isExact,
                 components>>

\* git.go 73-85: dirty check and the VersionComponents; an error of
\* workTreeIsDirty is wrapped with the context of the call (git.go 75)
DirtyCheck ==
  /\ pc = "workTreeIsDirty"
  /\ LET d == workTreeIsDirty(worktree)
     IN /\ commands' = commands \o d.cmds
        /\ IF ~d.ok
           THEN Fail("calculating version components: checking if worktree is dirty"
                       \o (IF d.err = "" THEN "" ELSE ": " \o d.err))
                /\ UNCHANGED components
           ELSE /\ components' = [Semver |-> version, Dirty |-> d.dirty,
                                  ShortHash |-> SubSeq(HashString(revision), 1, 8),
                                  Timestamp |-> CommitterWhen(revision),
                                  IsExact |-> isExact]
                /\ pc' = "buildLanguageVersions"
                /\ UNCHANGED <<err, result>>
  /\ UNCHANGED <<repoVars, cliVars, opts, revision, tagRef, walker, baseVersion, isExact,
                 version>>

\* version.go 43, 80-133: format the five strings
BuildVersions ==
  /\ pc = "buildLanguageVersions"
  /\ LET r == buildLanguageVersions(components, opts)
     IN IF ~r.ok
        THEN Fail("invalid prerelease type")
        ELSE /\ result' = r.lv
             /\ pc' = "done"
             /\ UNCHANGED err
  /\ UNCHANGED <<repoVars, cliVars, commands, opts, revision, tagRef, walker, baseVersion, isExact,
                 version, components>>

\* version.go 48-78: the whole of CalculateFromString
CalculateFromStringCall ==
  /\ pc = "CalculateFromString"
  /\ LET r == CalculateFromString(versionString)
     IN /\ result' = r.lv
        /\ err' = r.err
        /\ pc' = "done"
  /\ UNCHANGED <<repoVars, cliVars, commands, opts, revision, tagRef, walker, baseVersion, isExact,
                 version, components>>

\* version.go 256-264: the whole of GenerateFallbackVersion
GenerateFallbackVersionCall ==
  /\ pc = "GenerateFallbackVersion"
  /\ result' = GenerateFallbackVersion
  /\ pc' = "done"
  /\ UNCHANGED <<repoVars, cliVars, commands, opts, revision, tagRef, walker, baseVersion, isExact,
                 version, components, err>>

\* cmd/main.go 51-64: CLI.Run chooses what the program does: print its own
\* version, convert the argument when it looks like a version string, or
\* calculate from the repository
CLIRun ==
  /\ pc = "CLI.Run"
  /\ pc' = IF cli.ShowVersion THEN "CLI.showVersion"
           ELSE IF cli.Commitish # "" /\ isVersionString(cli.Commitish)
           THEN "CLI.convertVersion"
           ELSE "CLI.calculateVersion"
  /\ UNCHANGED <<repoVars, cliVars, commands, opts, revision, tagRef, walker, baseVersion,
                 isExact, version, components, result, err>>

\* cmd/main.go 66-78: the name and version of the program, as JSON (a map,
\* keys in order) or as a line of text
CLIShowVersion ==
  /\ pc = "CLI.showVersion"
  /\ stdout' = stdout \o
       (IF cli.JSON
        THEN "{" \o Quote("name") \o ":" \o Quote("vers") \o ","
                 \o Quote("version") \o ":" \o Quote(Version) \o "}" \o "\n"
        ELSE "vers version " \o Version \o "\n")
  /\ exitErr' = ""
  /\ pc' = "exit"
  /\ UNCHANGED <<repoVars, commands, opts, revision, tagRef, walker, baseVersion, isExact,
                 version, components, result, err>>

\* cmd/main.go 80-94: the argument converted by CalculateFromString and
\* printed, or the error of the conversion returned
CLIConvertVersion ==
  /\ pc = "CLI.convertVersion"
  /\ LET r == CalculateFromString(cli.Commitish)
     IN IF ~r.ok
        THEN /\ exitErr' = "converting version: " \o r.err
             /\ UNCHANGED stdout
        ELSE /\ stdout' = stdout \o printVersions(r.lv, cli)
             /\ exitErr' = ""
  /\ pc' = "exit"
  /\ UNCHANGED <<repoVars, commands, opts, revision, tagRef, walker, baseVersion, isExact,
                 version, components, result, err>>

\* cmd/main.go 96-130: directory, repository, Options; the fallback version
\* is printed when the repository cannot be opened
CLICalculateVersion ==
  /\ pc = "CLI.calculateVersion"
  /\ LET commitish == IF cli.Commitish # "" THEN cli.Commitish ELSE "HEAD"
         repoPath == IF cli.Repo = "" THEN cwd ELSE cli.Repo
     IN IF cli.Repo = "" /\ cwd = ""
        THEN /\ exitErr' = "getting current directory"
             /\ pc' = "exit"
             /\ UNCHANGED <<stdout, opts>>
        ELSE IF ~OpenRepository(repoPath).ok
        THEN /\ stdout' = stdout \o printVersions(GenerateFallbackVersion, cli)
             /\ exitErr' = ""
             /\ pc' = "exit"
             /\ UNCHANGED opts
        ELSE /\ opts' = [Repository |-> "repo", Commitish |-> commitish,
                         OmitCommitHash |-> cli.OmitCommitHash,
                         ReleasePrefix |-> cli.VersionPrefix,
                         IsPreRelease |-> cli.IsPreRelease, TagFilter |-> FilterNil,
                         TagPattern |-> cli.TagPattern]
             /\ pc' = "Calculate"
             /\ UNCHANGED cliVars
  /\ UNCHANGED <<repoVars, commands, revision, tagRef, walker, baseVersion, isExact,
                 version, components, result, err>>

\* mutation: an error of Calculate is returned and nothing is printed
CLIOutput_ReportError ==
  /\ pc = "done"
  /\ cli.invoked
  /\ IF err # ""
     THEN exitErr' = err /\ UNCHANGED stdout
     ELSE exitErr' = "" /\ stdout' = stdout \o printVersions(result, cli)
  /\ pc' = "exit"
  /\ UNCHANGED <<repoVars, commands, opts, revision, tagRef, walker, baseVersion,
                 isExact, version, components, result, err>>

\* cmd/main.go 132-148: Calculate has returned; its error is replaced by the
\* fallback version, and the versions are printed
CLIOutput ==
  /\ pc = "done"
  /\ cli.invoked
  /\ LET versions == IF err # "" THEN GenerateFallbackVersion ELSE result
     IN stdout' = stdout \o printVersions(versions, cli)
  /\ exitErr' = ""
  /\ pc' = "exit"
  /\ UNCHANGED <<repoVars, commands, opts, revision, tagRef, walker, baseVersion,
                 isExact, version, components, result, err>>

Next ==
  \/ CalculateEntry
  \/ ResolveCommit
  \/ DetermineBaseVersion
  \/ MostRecentTagStep
  \/ ParseAndBump
  \/ ReleasePrefixOverride
  \/ DirtyCheck
  \/ BuildVersions
  \/ CalculateFromStringCall
  \/ GenerateFallbackVersionCall
  \/ CLIRun
  \/ CLIShowVersion
  \/ CLIConvertVersion
  \/ CLICalculateVersion
  \/ CLIOutput

Spec == Init /\ [][Next]_vars

TypeOK ==
  /\ pc \in {"Calculate", "resolveRevision", "determineBaseVersion", "mostRecentTag",
             "parse", "releasePrefix", "workTreeIsDirty", "buildLanguageVersions",
             "CalculateFromString", "GenerateFallbackVersion", "done",
             "CLI.Run", "CLI.showVersion", "CLI.convertVersion", "CLI.calculateVersion",
             "exit"}
  /\ revision \in 0..Len(parents)
  /\ isExact \in BOOLEAN

(***************************************************************************)
(* Vocabulary of the properties.                                           *)
(***************************************************************************)
\* determineBaseVersion has returned for a resolved commit
BaseResolved ==
  /\ revision # 0
  /\ baseVersion # ""
  /\ pc \in {"parse", "releasePrefix", "workTreeIsDirty", "buildLanguageVersions", "done"}

\* getVersionComponents has returned a VersionComponents
ComponentsBuilt ==
  /\ pc \in {"buildLanguageVersions", "done"}
  /\ components.ShortHash # ""

\* Calculate has returned a LanguageVersions and no error
Returned == pc = "done" /\ err = ""

\* the base version the resolver found, parsed
ParsedBase == semverParse(baseVersion).v

\* "major.minor.patch" of a version
BaseString(v) == FormatInt(v.Major) \o "." \o FormatInt(v.Minor) \o "." \o FormatInt(v.Patch)

\* the committer time of the resolved commit, in decimal
TimestampString == FormatInt(CommitterWhen(revision))

\* a tag is visible under the options in force and passes the active filter
VisibleTag(t) == tagConsidered(t, opts.IsPreRelease, opts.TagFilter)

\* the commits reachable from c through parent edges, c included
RECURSIVE ReachableFrom(_, _)
ReachableFrom(frontier, acc) ==
  LET nxt == UNION {{parents[c][i] : i \in 1..Len(parents[c])} : c \in frontier} \ acc
  IN IF nxt = {} THEN acc ELSE ReachableFrom(nxt, acc \cup nxt)

Ancestors(c) == ReachableFrom({c}, {c})

\* no visible tag on the commit or on any of its ancestors
NoVisibleTagReachable(c) ==
  LET anc == Ancestors(c)
  IN \A t \in tags : t.target \in anc => ~VisibleTag(t)

\* a tag name of the form vX.Y.Z without prerelease or build part
PlainRelease(name) ==
  /\ HasPrefix(name, "v")
  /\ LET p == semverParse(TrimPrefix(name, "v"))
     IN p.ok /\ p.v.Pre = <<>> /\ p.v.Build = <<>>

(***************************************************************************)
(* C1. Bump policy of getVersionComponents: after the bump, a non-exact    *)
(* commit whose base version has major = 0 has only patch incremented by   *)
(* one; with major >= 1 minor is incremented by one and patch is 0; in     *)
(* both cases major is unchanged and the prerelease is exactly <<alpha>>.  *)
(* An exact commit keeps the tag's version, and with no release prefix     *)
(* that is the version of the VersionComponents.                           *)
(***************************************************************************)
C1_BumpPolicy ==
  LET afterBump == pc = "releasePrefix"
      noPrefix == opts.ReleasePrefix = ""
                    /\ (pc \in {"workTreeIsDirty", "buildLanguageVersions"} \/ ComponentsBuilt)
      v == IF ComponentsBuilt THEN components.Semver ELSE version
  IN (afterBump \/ noPrefix) =>
        LET b == ParsedBase
        IN IF isExact
           THEN /\ v.Major = b.Major /\ v.Minor = b.Minor /\ v.Patch = b.Patch
                /\ v.Pre = b.Pre
           ELSE /\ v.Pre = <<[VersionStr |-> "alpha", VersionNum |-> 0, IsNum |-> FALSE]>>
                /\ v.Major = b.Major
                /\ IF b.Major = 0
                   THEN v.Minor = b.Minor /\ v.Patch = b.Patch + 1
                   ELSE v.Minor = b.Minor + 1 /\ v.Patch = 0

\* a commit after tag v1.0.0-alpha.1 was bumped to 1.1.0 with prerelease alpha
C1_Witness ==
  /\ pc = "releasePrefix"
  /\ ~isExact
  /\ baseVersion = "1.0.0-alpha.1"
  /\ version.Major = 1 /\ version.Minor = 1 /\ version.Patch = 0
  /\ Len(version.Pre) = 1

(***************************************************************************)
(* C2. A commit from which no visible, filter-passing tag is reachable     *)
(* resolves to base version 0.0.0, not exact; with no release prefix and   *)
(* a dirty check that does not fail, Calculate returns a generic version   *)
(* beginning with "0.0.1-alpha.<ts>" and a Python version beginning with   *)
(* "0.0.1a<ts>", <ts> the committer time of the commit in Unix seconds.    *)
(***************************************************************************)
C2_NoTagDefault ==
  (BaseResolved /\ NoVisibleTagReachable(revision)) =>
     /\ baseVersion = "0.0.0"
     /\ ~isExact
     /\ (pc = "done" /\ opts.ReleasePrefix = "" /\ workTreeIsDirty(worktree).ok) =>
          /\ err = ""
          /\ HasPrefix(result.SemVer, "0.0.1-alpha." \o TimestampString)
          /\ HasPrefix(result.Python, "0.0.1a" \o TimestampString)

\* a commit whose only tag is hidden (beta, not a prerelease build) got 0.0.1-alpha.<ts>
C2_Witness ==
  /\ Returned
  /\ tags # {}
  /\ NoVisibleTagReachable(revision)
  /\ opts.ReleasePrefix = ""
  /\ HasPrefix(result.SemVer, "0.0.1-alpha.17")

(***************************************************************************)
(* C3 (as stated). When the resolved commit carries an exact, visible tag  *)
(* vX.Y.Z without prerelease (the one the exact-match search returns) and  *)
(* no release prefix is given, the generic output equals "X.Y.Z" in        *)
(* whatever working-tree state.                                            *)
(***************************************************************************)
C3_Original ==
  (Returned /\ opts.ReleasePrefix = "" /\ isExact) =>
     \A t \in tags :
        (t.target = revision /\ VisibleTag(t) /\ PlainRelease(t.name)
           /\ tagRef = RefNameString(t)) =>
           result.SemVer = TrimPrefix(t.name, "v")

(***************************************************************************)
(* C3 (amended). When the tag returned by the exact-match search is        *)
(* vX.Y.Z without prerelease and no release prefix is given, the generic   *)
(* output is "X.Y.Z" on a clean working tree and "X.Y.Z+dirty" on a dirty  *)
(* one: no prerelease and no hash, whether OmitCommitHash is set or not.   *)
(***************************************************************************)
C3_ExactRelease ==
  (Returned /\ opts.ReleasePrefix = "" /\ isExact
     /\ PlainRelease(TrimPrefix(tagRef, "refs/tags/"))) =>
        result.SemVer = TrimPrefix(TrimPrefix(tagRef, "refs/tags/"), "v")
                          \o (IF components.Dirty THEN "+dirty" ELSE "")

\* an exact v1.0.0 on a dirty tree, hash not omitted
C3_Witness ==
  /\ Returned
  /\ isExact
  /\ tagRef = "refs/tags/v1.0.0"
  /\ opts.ReleasePrefix = ""
  /\ ~opts.OmitCommitHash /\ ~opts.IsPreRelease
  /\ components.Dirty
  /\ result.SemVer = "1.0.0+dirty"

(***************************************************************************)
(* Commit-graph vocabulary for C4.                                         *)
(***************************************************************************)
\* number of parent edges on a shortest path from the frontier to target
RECURSIVE DistFrom(_, _, _, _)
DistFrom(frontier, acc, target, d) ==
  IF target \in frontier THEN d
  ELSE LET nxt == UNION {{parents[c][i] : i \in 1..Len(parents[c])} : c \in frontier} \ acc
       IN IF nxt = {} THEN -1 ELSE DistFrom(nxt, acc \cup nxt, target, d + 1)

Dist(c, target) == DistFrom({c}, {c}, target, 0)

\* depth-first preorder from the commits of todo, first parent first
RECURSIVE PreorderList(_, _)
PreorderList(todo, seen) ==
  IF todo = <<>> THEN <<>>
  ELSE LET c == Head(todo)
       IN IF c \in seen THEN PreorderList(Tail(todo), seen)
          ELSE <<c>> \o PreorderList(parents[c] \o Tail(todo), seen \cup {c})

\* the commit has a visible, filter-passing tag
HasVisibleTag(c) == \E t \in tags : VisibleTag(t) /\ t.target = c

\* the commit the returned tag reference points at
FoundCommit == (CHOOSE t \in tags : RefNameString(t) = tagRef).target

\* mostRecentTag has returned a tag
FoundRecent == BaseResolved /\ ~isExact /\ tagRef # ""

(***************************************************************************)
(* C4 (as stated). The tag mostRecentTag returns is on the nearest         *)
(* visibly-tagged ancestor: in every commit graph, no ancestor with a      *)
(* visible tag is reachable through fewer parent edges.                    *)
(***************************************************************************)
C4_Original ==
  FoundRecent =>
     \A c \in Ancestors(revision) :
        HasVisibleTag(c) => Dist(revision, c) >= Dist(revision, FoundCommit)

(***************************************************************************)
(* C4 (amended). The tag mostRecentTag returns is on the first commit      *)
(* with a visible tag in the depth-first preorder walk from the commit,    *)
(* first parent first; when no commit of the history has more than one     *)
(* parent this is the nearest visibly-tagged ancestor.                     *)
(***************************************************************************)
C4_PreorderFirst ==
  FoundRecent =>
     LET order == PreorderList(<<revision>>, {})
         k == CHOOSE i \in 1..Len(order) : order[i] = FoundCommit
     IN /\ FoundCommit \in Ancestors(revision)
        /\ HasVisibleTag(FoundCommit)
        /\ \A i \in 1..(k - 1) : ~HasVisibleTag(order[i])
        /\ (\A c \in Ancestors(revision) : Len(parents[c]) <= 1) =>
              \A c \in Ancestors(revision) :
                 HasVisibleTag(c) => Dist(revision, c) >= Dist(revision, FoundCommit)

\* on a merge commit the walk returned a tag two edges away through the first
\* parent although the second parent carries a visible tag
C4_Witness ==
  /\ FoundRecent
  /\ Len(parents[revision]) = 2
  /\ Dist(revision, FoundCommit) = 2
  /\ HasVisibleTag(parents[revision][2])

(***************************************************************************)
(* C5. Prerelease visibility. With IsPreRelease false a tag whose name     *)
(* contains "beta" or "rc" is never the returned reference and a commit    *)
(* carrying only such tags is not exact; with IsPreRelease true such a     *)
(* tag on the commit makes it exact. A tag whose name contains "alpha" or  *)
(* "dev" and neither "beta" nor "rc" makes its commit exact in both modes  *)
(* (filter permitting).                                                    *)
(***************************************************************************)
BetaOrRc(name) == Contains(name, "beta") \/ Contains(name, "rc")

PassesFilter(t) == opts.TagFilter.kind = "nil" \/ tagFilterCall(opts.TagFilter, t.name)

C5_PrereleaseVisibility ==
  (revision # 0 /\ storerFault = "none" /\ pc \in {"mostRecentTag", "parse", "releasePrefix", "workTreeIsDirty",
                           "buildLanguageVersions", "done"}) =>
     /\ (~opts.IsPreRelease /\ tagRef # "") => ~BetaOrRc(TrimPrefix(tagRef, "refs/tags/"))
     /\ (~opts.IsPreRelease
           /\ \A t \in tags : t.target = revision => BetaOrRc(t.name)) => ~isExact
     /\ (opts.IsPreRelease
           /\ \E t \in tags : t.target = revision /\ BetaOrRc(t.name) /\ PassesFilter(t))
          => isExact
     /\ (\E t \in tags : /\ t.target = revision /\ PassesFilter(t)
                         /\ (Contains(t.name, "alpha") \/ Contains(t.name, "dev"))
                         /\ ~BetaOrRc(t.name))
          => isExact

\* the commit carries an rc tag, the build is not a prerelease build, and the
\* resolver skipped it and took the tag of the parent commit
C5_Witness ==
  /\ BaseResolved
  /\ ~opts.IsPreRelease
  /\ \E t \in tags : t.target = revision /\ t.name = "v1.2.0-rc.1"
  /\ ~isExact
  /\ tagRef = "refs/tags/v1.0.0"

(***************************************************************************)
(* C6. Custom tag filter. With an active filter the returned reference,    *)
(* exact or most recent, is one on whose name without "refs/tags/" the     *)
(* predicate is true. A commit tagged v1.0.0 and sdk/v2.0.0 resolves to    *)
(* 2.0.0 under pattern "^sdk/" and to v1.0.0 under a filter rejecting      *)
(* names that contain "/".                                                 *)
(***************************************************************************)
\* the names each tag pattern of the inputs stands for, said without the
\* pattern language
NameFits(pattern, short) ==
  LET IsNumber(s) == s # "" /\ containsOnly(s, DigitChars) IN
  CASE pattern = "^sdk/" -> HasPrefix(short, "sdk/")
    [] pattern = "^v" -> HasPrefix(short, "v")
    [] pattern = ReleaseTagPattern ->
         LET parts == Split(short, ".")
         IN /\ Len(parts) = 3
            /\ HasPrefix(parts[1], "v") /\ IsNumber(TrimPrefix(parts[1], "v"))
            /\ IsNumber(parts[2]) /\ IsNumber(parts[3])
    [] pattern = "v." -> \E i \in 1..(Len(short) - 1) : Ch(short, i) = "v"
    [] pattern = "[a-z]+" -> \E i \in 1..Len(short) : Contains(LowerChars, Ch(short, i))
    [] pattern = "^v|^sdk/" -> HasPrefix(short, "v") \/ HasPrefix(short, "sdk/")
    [] pattern = "^(v|sdk/nodejs/v)[0-9]" ->
         \E p \in {"v", "sdk/nodejs/v"} :
           HasPrefix(short, p) /\ Len(short) > Len(p)
             /\ Contains(DigitChars, Ch(short, Len(p) + 1))
    [] pattern = "(?i)^V" -> HasPrefix(short, "v") \/ HasPrefix(short, "V")
    [] pattern = "[[:alpha:]]+/" ->
         \E i \in 2..Len(short) :
           Ch(short, i) = "/" /\ Code(Ch(short, i - 1)) \in (65..90) \cup (97..122)
    [] pattern = "\\Qv1.\\E" -> Contains(short, "v1.")
    [] pattern = "/v\\d{1,2}\\." ->
         \E i \in 1..Len(short), n \in 1..2 :
           /\ i + 2 + n <= Len(short)
           /\ SubSeq(short, i, i + 1) = "/v"
           /\ IsNumber(SubSeq(short, i + 2, i + 1 + n))
           /\ Ch(short, i + 2 + n) = "."
    [] OTHER -> FALSE

C6_TagFilter ==
  LET short == TrimPrefix(tagRef, "refs/tags/")
      both == {t.name : t \in {u \in tags : u.target = revision}} = {"v1.0.0", "sdk/v2.0.0"}
  IN /\ (BaseResolved /\ tagRef # "") =>
          /\ opts.TagFilter.kind = "noSlash" => ~Contains(short, "/")
          /\ opts.TagFilter.kind = "regexp" => NameFits(opts.TagPattern, short)
     /\ (BaseResolved /\ both /\ opts.TagFilter.kind = "regexp" /\ opts.TagPattern = "^sdk/") =>
          /\ isExact /\ tagRef = "refs/tags/sdk/v2.0.0"
          /\ Returned => HasPrefix(result.SemVer, "2.0.0")
     /\ (BaseResolved /\ both /\ opts.TagFilter.kind = "noSlash") =>
          /\ isExact /\ tagRef = "refs/tags/v1.0.0"

\* both tags on the commit, pattern "^sdk/": Calculate returned 2.0.0
C6_Witness ==
  /\ Returned
  /\ {t.name : t \in {u \in tags : u.target = revision}} = {"v1.0.0", "sdk/v2.0.0"}
  /\ opts.TagPattern = "^sdk/"
  /\ result.SemVer = "2.0.0"

(***************************************************************************)
(* C7. Release prefix override. With a release prefix that parses, major,  *)
(* minor and patch of the components and of the output are those of the    *)
(* prefix, for exact and non-exact commits; the prerelease identifiers,    *)
(* the exactness flag, the dirty flag, the short hash and the timestamp    *)
(* are what they are without the prefix, so the output is the output       *)
(* without prefix with its "major.minor.patch" replaced. Prerelease and    *)
(* build parts of the prefix are not taken over.                           *)
(***************************************************************************)
\* the "major.minor.patch" text of a release prefix
PrefixTriple(prefix) ==
  LET cut == {i \in 1..Len(prefix) : Ch(prefix, i) \in {"-", "+"}}
  IN IF cut = {} THEN prefix
     ELSE SubSeq(prefix, 1, (CHOOSE i \in cut : \A j \in cut : i <= j) - 1)

\* the version getVersionComponents computes when no prefix is given
VersionWithoutPrefix == bumpVersion(ParsedBase, isExact)

C7_ReleasePrefix ==
  (ComponentsBuilt /\ opts.ReleasePrefix # "") =>
     LET sv == components.Semver
         ref == VersionWithoutPrefix
         refOut == buildLanguageVersions([components EXCEPT !.Semver = ref], opts).lv
     IN /\ BaseString(sv) = PrefixTriple(opts.ReleasePrefix)
        /\ sv.Pre = ref.Pre
        /\ components.IsExact = isExact
        /\ components.Dirty = workTreeIsDirty(worktree).dirty
        /\ components.ShortHash = SubSeq(HashString(revision), 1, 8)
        /\ components.Timestamp = CommitterWhen(revision)
        /\ Returned =>
             /\ result.SemVer = PrefixTriple(opts.ReleasePrefix)
                                  \o TrimPrefix(refOut.SemVer, BaseString(ref))
             /\ result.Python = PrefixTriple(opts.ReleasePrefix)
                                  \o TrimPrefix(refOut.Python, BaseString(ref))

\* prefix 2.0.0-rc.5 on a non-exact commit after v1.0.0: 2.0.0-alpha.<ts>, no rc
C7_Witness ==
  /\ Returned
  /\ opts.ReleasePrefix = "2.0.0-rc.5"
  /\ ~isExact
  /\ baseVersion = "1.0.0"
  /\ HasPrefix(result.SemVer, "2.0.0-alpha.17")

(***************************************************************************)
(* C8 (as stated). In every VersionComponents, Semver.Pre is non-empty     *)
(* if and only if IsExact is false.                                        *)
(***************************************************************************)
C8_Original ==
  ComponentsBuilt => (Len(components.Semver.Pre) > 0 <=> ~components.IsExact)

(***************************************************************************)
(* C8 (amended). In every VersionComponents: if IsExact is false,          *)
(* Semver.Pre is exactly <<alpha>>, hence non-empty; if IsExact is true,   *)
(* Semver.Pre is the prerelease list of the tag, non-empty for a           *)
(* prerelease tag and empty otherwise.                                     *)
(***************************************************************************)
C8_PrereleasePresence ==
  ComponentsBuilt =>
     /\ ~components.IsExact =>
          /\ Len(components.Semver.Pre) = 1
          /\ components.Semver.Pre[1].VersionStr = "alpha"
     /\ components.IsExact =>
          /\ components.Semver.Pre = ParsedBase.Pre

\* an exact prerelease tag: IsExact and a non-empty prerelease list
C8_Witness ==
  /\ ComponentsBuilt
  /\ components.IsExact
  /\ tagRef = "refs/tags/v1.0.0-alpha.1"
  /\ Len(components.Semver.Pre) = 2

(***************************************************************************)
(* Vocabulary of the formatter properties.                                 *)
(***************************************************************************)
\* the first prerelease identifier of the components
PreKind == components.Semver.Pre[1].VersionStr

\* the PEP440 token of a prerelease kind
PythonToken(kind) ==
  CASE kind = "alpha" -> "a" [] kind = "beta" -> "b" [] OTHER -> kind

\* "+" and the short commit id when the hash is included
HashIncluded == ~opts.OmitCommitHash /\ ~opts.IsPreRelease

HashPart == IF HashIncluded THEN "+" \o components.ShortHash ELSE ""

(***************************************************************************)
(* C9 (as stated). Prerelease suffix of the formatter, on a clean tree:    *)
(* not exact: "." and the committer time; exact with a second, numeric     *)
(* identifier N: ".N"; exact with exactly one identifier: empty, so the    *)
(* generic string is base-kind (plus the hash when included) and the       *)
(* PEP440 ordinal is "0".                                                  *)
(***************************************************************************)
C9_Original ==
  (Returned /\ Len(components.Semver.Pre) > 0 /\ ~components.Dirty) =>
     LET pre == components.Semver.Pre
         covered == \/ ~components.IsExact
                    \/ Len(pre) = 1
                    \/ (Len(pre) >= 2 /\ pre[2].IsNum)
         suffix == IF ~components.IsExact THEN "." \o FormatInt(components.Timestamp)
                   ELSE IF Len(pre) >= 2 THEN "." \o FormatInt(pre[2].VersionNum)
                   ELSE ""
         ordinal == IF suffix = "" THEN "0" ELSE SubSeq(suffix, 2, Len(suffix))
     IN covered =>
          /\ result.SemVer = BaseString(components.Semver) \o "-" \o PreKind
                               \o suffix \o HashPart
          /\ result.Python = BaseString(components.Semver) \o PythonToken(PreKind)
                               \o ordinal

(***************************************************************************)
(* C10 (as stated). With a prerelease, a dirty tree and the hash           *)
(* included, generic = base-kind + suffix + ".dirty" + "+" + short id.     *)
(***************************************************************************)
\* the numeric suffix the formatter computes
FormatterSuffix ==
  LET pre == components.Semver.Pre
  IN IF ~components.IsExact THEN "." \o FormatInt(components.Timestamp)
     ELSE "." \o FormatInt(IF Len(pre) >= 2 THEN pre[2].VersionNum ELSE 0)

C10_Original ==
  (Returned /\ Len(components.Semver.Pre) > 0 /\ components.Dirty /\ HashIncluded) =>
     result.SemVer = BaseString(components.Semver) \o "-" \o PreKind \o FormatterSuffix
                       \o ".dirty" \o "+" \o components.ShortHash

(***************************************************************************)
(* C10 (amended). With a prerelease, a dirty tree and the hash included,   *)
(* generic = base-kind + suffix + "+" + short id + ".dirty": the dirty     *)
(* marker comes last, after the commit hash.                               *)
(***************************************************************************)
C10_AssemblyOrder ==
  (Returned /\ Len(components.Semver.Pre) > 0 /\ components.Dirty /\ HashIncluded) =>
     result.SemVer = BaseString(components.Semver) \o "-" \o PreKind \o FormatterSuffix
                       \o "+" \o components.ShortHash \o ".dirty"

\* a dirty, non-exact commit after v1.0.0 with the hash included
C10_Witness ==
  /\ Returned
  /\ components.Dirty
  /\ HashIncluded
  /\ result.SemVer = "1.1.0-alpha.1700000120+2f3a9c2e.dirty"

(***************************************************************************)
(* Vocabulary of the properties of the three entry points.                 *)
(***************************************************************************)
\* Calculate has returned a LanguageVersions and no error
CalculateReturned == pc = "done" /\ err = "" /\ components.ShortHash # ""

\* strings.HasSuffix
HasSuffix(s, x) == Len(s) >= Len(x) /\ SubSeq(s, Len(s) - Len(x) + 1, Len(s)) = x

\* the five strings of a LanguageVersions
AllFive(lv) == {lv.SemVer, lv.Python, lv.JavaScript, lv.DotNet, lv.Go}

(***************************************************************************)
(* C11. Dirty marker rule. When Calculate returns: if the dirty flag is    *)
(* false none of the five strings contains "dirty"; if it is true the      *)
(* Python string ends with "+dirty", and the generic and .NET strings, and *)
(* the npm and Go strings after their "v", are the strings of the same     *)
(* components on a clean tree with "+dirty" appended when the version has  *)
(* no prerelease and ".dirty" appended when it has one.                    *)
(***************************************************************************)
C11_DirtyMarker ==
  CalculateReturned =>
     IF ~components.Dirty
     THEN \A x \in AllFive(result) : ~Contains(x, "dirty")
     ELSE LET clean == buildLanguageVersions([components EXCEPT !.Dirty = FALSE], opts).lv
              mark == IF Len(components.Semver.Pre) = 0 THEN "+dirty" ELSE ".dirty"
          IN /\ HasSuffix(result.Python, "+dirty")
             /\ ~Contains(clean.Python, "dirty") /\ ~Contains(clean.SemVer, "dirty")
             /\ result.Python = clean.Python \o "+dirty"
             /\ result.SemVer = clean.SemVer \o mark
             /\ result.DotNet = clean.DotNet \o mark
             /\ result.JavaScript = "v" \o clean.SemVer \o mark
             /\ result.Go = "v" \o clean.SemVer \o mark

\* a dirty non-exact commit with the hash omitted: ".dirty" in the generic
\* string, "+dirty" in the Python string
C11_Witness ==
  /\ CalculateReturned
  /\ components.Dirty
  /\ opts.OmitCommitHash
  /\ result.SemVer = "1.1.0-alpha.1700000120.dirty"
  /\ result.Python = "1.1.0a1700000120+dirty"

(***************************************************************************)
(* C12. Commit-hash rule. When Calculate returns, "+" followed by the      *)
(* 8-character short commit id occurs in the generic, .NET, npm and Go     *)
(* strings exactly when OmitCommitHash is false, IsPreRelease is false and *)
(* the version has a prerelease; the Python string never contains the      *)
(* short commit id.                                                        *)
(***************************************************************************)
C12_CommitHash ==
  CalculateReturned =>
     LET plusHash == "+" \o SubSeq(HashString(revision), 1, 8)
         expected == ~opts.OmitCommitHash /\ ~opts.IsPreRelease
                       /\ Len(components.Semver.Pre) > 0
     IN /\ Len(plusHash) = 9
        /\ \A x \in {result.SemVer, result.DotNet, result.JavaScript, result.Go} :
              Contains(x, plusHash) <=> expected
        /\ ~Contains(result.Python, SubSeq(HashString(revision), 1, 8))

\* a prerelease build of a non-exact commit, hash not omitted: no hash
C12_Witness ==
  /\ CalculateReturned
  /\ opts.IsPreRelease /\ ~opts.OmitCommitHash
  /\ ~components.IsExact
  /\ result.SemVer = "1.1.0-alpha.1700000120"

(***************************************************************************)
(* C13. Prerelease-kind mapping. When the formatter of Calculate runs on a *)
(* version with a prerelease: a first identifier dev, alpha, beta, rc is   *)
(* rendered "-dev", "-alpha", "-beta", "-rc" after the base in the generic *)
(* string and "dev", "a", "b", "rc" followed by a digit in the Python      *)
(* string; for any other first identifier Calculate fails with "invalid    *)
(* prerelease type" and returns no LanguageVersions.                       *)
(***************************************************************************)
C13_KindMapping ==
  (pc = "done" /\ components.ShortHash # "" /\ Len(components.Semver.Pre) > 0) =>
     LET kind == components.Semver.Pre[1].VersionStr
         base == BaseString(components.Semver)
         py == CASE kind = "dev" -> "dev" [] kind = "alpha" -> "a"
                 [] kind = "beta" -> "b" [] kind = "rc" -> "rc" [] OTHER -> ""
     IN IF kind \in {"dev", "alpha", "beta", "rc"}
        THEN /\ err = ""
             /\ HasPrefix(result.SemVer, base \o "-" \o kind)
             /\ HasPrefix(result.Python, base \o py)
             /\ IsDigitAt(result.Python, Len(base) + Len(py) + 1)
        ELSE /\ err = "invalid prerelease type"
             /\ result = NoLanguageVersions

\* the exact tag v1.0.0-preview.1: Calculate failed in the formatter
C13_Witness ==
  /\ pc = "done"
  /\ tagRef = "refs/tags/v1.0.0-preview.1"
  /\ components.IsExact
  /\ err = "invalid prerelease type"
  /\ result = NoLanguageVersions

(***************************************************************************)
(* C14. Cross-format invariant. In every LanguageVersions returned by      *)
(* Calculate, by CalculateFromString or by GenerateFallbackVersion the     *)
(* .NET string is the generic string and the npm and Go strings are "v"    *)
(* followed by the generic string.                                         *)
(***************************************************************************)
C14_CrossFormat ==
  (pc = "done" /\ err = "") =>
     /\ result.SemVer # ""
     /\ result.DotNet = result.SemVer
     /\ result.JavaScript = "v" \o result.SemVer
     /\ result.Go = "v" \o result.SemVer

\* CalculateFromString("v1.2.3-rc.1+dirty") returned its five strings
C14_Witness ==
  /\ pc = "done"
  /\ versionString = "v1.2.3-rc.1+dirty"
  /\ result.SemVer = "1.2.3-rc.1+dirty"
  /\ result.Go = "v1.2.3-rc.1+dirty"

(***************************************************************************)
(* C15. PEP440 conversion of CalculateFromString. For an argument          *)
(* "X.Y.Z-kind.N" with X, Y, Z and N strings of digits and kind one of     *)
(* alpha, beta, rc, dev, the Python string is "X.Y.Z" followed by a, b,    *)
(* rc, dev respectively and by N as written; for "X.Y.Z-kind" it is        *)
(* followed by the token and "0".                                          *)
(***************************************************************************)
\* a non-empty string of decimal digits
IsNumeric(s) == Len(s) > 0 /\ containsOnly(s, DigitChars)

C15_Pep440 ==
  (pc = "done" /\ versionString # "") =>
     LET parts == Split(versionString, ".")
         third == parts[3]
         d == Index(third, "-")
         z == SubSeq(third, 1, d - 1)
         kind == SubSeq(third, d + 1, Len(third))
         token == CASE kind = "alpha" -> "a" [] kind = "beta" -> "b"
                    [] kind = "rc" -> "rc" [] OTHER -> "dev"
         ordinal == IF Len(parts) = 4 THEN parts[4] ELSE "0"
     IN (/\ Len(parts) \in {3, 4}
         /\ IsNumeric(parts[1]) /\ IsNumeric(parts[2])
         /\ d > 0 /\ IsNumeric(z)
         /\ kind \in {"alpha", "beta", "rc", "dev"}
         /\ (Len(parts) = 4 => IsNumeric(parts[4]))) =>
            /\ err = ""
            /\ result.Python = parts[1] \o "." \o parts[2] \o "." \o z \o token \o ordinal

\* CalculateFromString("1.2.3-beta.007") kept the ordinal as written
C15_Witness ==
  /\ pc = "done"
  /\ versionString = "1.2.3-beta.007"
  /\ result.Python = "1.2.3b007"

(***************************************************************************)
(* C16. Error condition of CalculateFromString: it returns the error       *)
(* "version must have exactly 3 parts" and no LanguageVersions exactly     *)
(* when its argument, one leading "v" removed, contains fewer than two     *)
(* "."; for every other argument it returns a LanguageVersions and no      *)
(* error.                                                                  *)
(***************************************************************************)
\* the number of "." in s
CountDots(s) == Cardinality({i \in 1..Len(s) : Ch(s, i) = "."})

C16_ErrorCondition ==
  [][pc = "CalculateFromString" =>
       IF CountDots(TrimPrefix(versionString, "v")) < 2
       THEN /\ HasPrefix(err', "version must have exactly 3 parts")
            /\ result' = NoLanguageVersions
       ELSE /\ err' = ""
            /\ result' # NoLanguageVersions]_vars

\* CalculateFromString("v1.2") failed
C16_Witness ==
  /\ pc = "done"
  /\ versionString = "v1.2"
  /\ err = "version must have exactly 3 parts: \"v1.2\""
  /\ result = NoLanguageVersions

(***************************************************************************)
(* C17. Pass-through of CalculateFromString. For every accepted argument   *)
(* the generic string is the argument with one leading "v" removed,        *)
(* character for character; and for every s that does not start with "v"   *)
(* the call on "v" + s returns the LanguageVersions of the call on s, or   *)
(* both fail (the error text quotes the argument as given).                *)
(***************************************************************************)
C17_PassThrough ==
  [][pc = "CalculateFromString" =>
       /\ err' = "" => result'.SemVer = TrimPrefix(versionString, "v")
       /\ ~HasPrefix(versionString, "v") =>
             LET withV == CalculateFromString("v" \o versionString)
             IN /\ withV.ok = (err' = "")
                /\ withV.lv = result']_vars

\* neither the second "v" nor the leading zeroes of "vv01.2.3" were touched
C17_Witness ==
  /\ pc = "done"
  /\ versionString = "vv01.2.3-alpha.007"
  /\ result.SemVer = "v01.2.3-alpha.007"

(***************************************************************************)
(* C18 (as stated). For every Options whose TagPattern is not a valid      *)
(* regular expression, whatever the other fields, TagFilter included,      *)
(* Calculate fails (returns an error and no LanguageVersions); and once a  *)
(* pattern is given, a filter is active after normalisation.               *)
(***************************************************************************)
\* the patterns of the inputs that are not regular expressions: the unclosed
\* bracket of TestCalculate/Invalid tag pattern, an unclosed group and a
\* repetition of a repetition
InvalidPattern(p) == p \in {"[invalid regex", "(", "a**", "{2}", "\\1"}

C18_Original ==
  /\ (pc = "done" /\ InvalidPattern(opts.TagPattern)) =>
        /\ err # ""
        /\ result = NoLanguageVersions
  /\ (pc \notin {"Calculate", "CalculateFromString", "GenerateFallbackVersion"}
        /\ err = "" /\ opts.TagPattern # "") =>
        opts.TagFilter.kind # "nil"

(***************************************************************************)
(* C18 (amended). With a repository given: when TagFilter is nil and       *)
(* TagPattern is not empty and not a valid regular expression, Calculate   *)
(* fails with "invalid tag pattern" before any other stage; when TagFilter *)
(* is set, TagPattern is not compiled and has no effect, valid or not, and *)
(* the caller's TagFilter stays the active filter. After normalisation at  *)
(* most one filter is active: the caller's TagFilter if set, otherwise the *)
(* compiled TagPattern if given, otherwise none.                           *)
(***************************************************************************)
C18_PatternNormalisation ==
  [][(pc = "Calculate" /\ opts.Repository # "nil") =>
       IF opts.TagFilter.kind # "nil"
       THEN /\ err' = "" /\ pc' = "resolveRevision"
            /\ opts'.TagFilter = opts.TagFilter
       ELSE IF opts.TagPattern = ""
       THEN /\ err' = "" /\ pc' = "resolveRevision"
            /\ opts'.TagFilter = FilterNil
       ELSE IF InvalidPattern(opts.TagPattern)
       THEN /\ pc' = "done" /\ err' = "invalid tag pattern"
            /\ result' = NoLanguageVersions
            /\ revision' = 0 /\ tagRef' = ""
       ELSE /\ err' = "" /\ pc' = "resolveRevision"
            /\ opts'.TagFilter.kind = "regexp"
            /\ opts'.TagFilter.re = opts.TagPattern]_vars

\* a caller's filter together with an invalid pattern: Calculate returned versions
C18_Witness ==
  /\ pc = "done"
  /\ err = ""
  /\ opts.TagFilter.kind = "noSlash"
  /\ InvalidPattern(opts.TagPattern)
  /\ result.SemVer = "1.0.0"

(***************************************************************************)
(* C19. Stage ordering of Calculate. The nine steps run in the order       *)
(* repository check, tag-pattern compilation, resolve commitish, load      *)
(* commit, determine base version (tag listing, object lookup, ancestry    *)
(* walk), parse and bump, release prefix, dirty check, formatting. A step  *)
(* runs only while no step has failed: an error is the error of a step of  *)
(* the stage that ran, a pattern error is returned only for a repository   *)
(* that is not nil and a load error only for a commitish that resolved,    *)
(* while a nil repository is reported whatever the pattern and a           *)
(* commitish that does not resolve whatever read of the commit would       *)
(* fail. The first failure ends the call with no LanguageVersions and the  *)
(* error of that step, and leaves the locals of the later steps            *)
(* untouched: after an invalid tag pattern no revision is resolved, no     *)
(* tag is listed and no commit is walked, and a failure before the dirty   *)
(* check leaves no VersionComponents.                                      *)
(***************************************************************************)
CalculateStages ==
  {"Calculate", "resolveRevision", "determineBaseVersion", "mostRecentTag", "parse",
   "releasePrefix", "workTreeIsDirty", "buildLanguageVersions"}

\* the stages that may follow a stage that did not fail
NextStages(p) ==
  CASE p = "Calculate" -> {"resolveRevision"}
    [] p = "resolveRevision" -> {"determineBaseVersion"}
    [] p = "determineBaseVersion" -> {"mostRecentTag", "parse"}
    [] p = "mostRecentTag" -> {"mostRecentTag", "parse"}
    [] p = "parse" -> {"releasePrefix"}
    [] p = "releasePrefix" -> {"workTreeIsDirty"}
    [] p = "workTreeIsDirty" -> {"buildLanguageVersions"}
    [] OTHER -> {"done"}

\* the steps of Calculate, numbered in the order of the code, that a stage runs
StageSteps(p) ==
  CASE p = "Calculate" -> {1, 2}
    [] p = "resolveRevision" -> {3, 4}
    [] p \in {"determineBaseVersion", "mostRecentTag"} -> {5}
    [] p = "parse" -> {6}
    [] p = "releasePrefix" -> {7}
    [] p = "workTreeIsDirty" -> {8}
    [] p = "buildLanguageVersions" -> {9}
    [] OTHER -> {}

\* the errors with which a step can end the call, from stage p
StepErrors(k, p) ==
  CASE k = 1 -> {"repository is required"}
    [] k = 2 -> {"invalid tag pattern"}
    [] k = 3 -> {"calculating version components: resolving commitish"}
    [] k = 4 -> {"calculating version components: getting commit object"}
    [] k = 5 /\ p = "determineBaseVersion" ->
         {"calculating version components: determining base version: getting commit object",
          "calculating version components: determining base version: checking exact tag: listing tags",
          "calculating version components: determining base version: checking exact tag",
          "calculating version components: determining base version: finding recent tag: getting commit object"}
    [] k = 5 /\ p = "mostRecentTag" ->
         {"calculating version components: determining base version: finding recent tag",
          "calculating version components: determining base version: finding recent tag: listing tags"}
    [] k = 6 -> {"calculating version components: parsing base version"}
    [] k = 7 -> {"calculating version components: parsing release prefix"}
    [] k = 8 -> {"calculating version components: checking if worktree is dirty",
                 "calculating version components: checking if worktree is dirty: getting worktree",
                 "calculating version components: checking if worktree is dirty: getting git status"}
    [] k = 9 -> {"invalid prerelease type"}
    [] OTHER -> {}

C19_StageOrder ==
  [][(pc \in CalculateStages) =>
      (/\ err = ""
       /\ IF err' # ""
          THEN /\ pc' = "done"
               /\ result' = NoLanguageVersions
               /\ \E k \in StageSteps(pc) : err' \in StepErrors(k, pc)
               /\ err' \in StepErrors(2, pc) =>
                     /\ opts.Repository # "nil"
                     /\ opts.TagFilter.kind = "nil"
                     /\ InvalidPattern(opts.TagPattern)
               /\ err' \in StepErrors(4, pc) =>
                     /\ revision' # 0
                     /\ ResolveRevision(opts.Commitish) = revision'
                     /\ storerFault = "commitObject"
               /\ pc = "Calculate" => revision' = 0
               /\ pc \in {"Calculate", "resolveRevision"} =>
                     /\ tagRef' = "" /\ baseVersion' = ""
                     /\ walker' = NewCommitPreorderIter(0)
               /\ pc # "buildLanguageVersions" => components'.ShortHash = ""
          ELSE /\ pc' \in NextStages(pc)
               /\ pc' = "done" => result' # NoLanguageVersions
               /\ pc = "Calculate" => opts.Repository # "nil"
               /\ pc = "resolveRevision" =>
                     /\ revision' # 0
                     /\ storerFault \notin {"resolveRevision", "commitObject"}
       /\ (pc = "Calculate" /\ opts.Repository = "nil") => err' \in StepErrors(1, pc)
       /\ (pc = "resolveRevision"
             /\ (opts.Commitish = "nosuch" \/ storerFault = "resolveRevision")) =>
                (err' \in StepErrors(3, pc) /\ revision' = 0))]_vars

\* a nil repository ended the call at the first step although the tag pattern
\* is invalid and the dirty check would fail: no later step left a trace
C19_Witness ==
  /\ pc = "done"
  /\ err = "repository is required"
  /\ opts.Repository = "nil"
  /\ InvalidPattern(opts.TagPattern)
  /\ opts.TagFilter.kind = "nil"
  /\ worktree.fault = "diffErr"
  /\ revision = 0
  /\ tagRef = ""
  /\ result = NoLanguageVersions

(***************************************************************************)
(* C20 (as stated). The two dirty-detection paths agree: for every         *)
(* working-tree state (clean, tracked file modified, file staged but not   *)
(* committed, untracked file present) the fast path (update-index          *)
(* --refresh, then diff-files) and the fallback (worktree Status is not    *)
(* clean) return the same boolean, which is the Dirty flag of the          *)
(* components.                                                             *)
(***************************************************************************)
C20_Original ==
  (pc \in {"buildLanguageVersions", "done"} /\ components.ShortHash # ""
     /\ worktree.fault = "none") =>
        LET fast == workTreeIsDirty([worktree EXCEPT !.storer = "filesystem"])
            fallback == workTreeIsDirty([worktree EXCEPT !.storer = "memory"])
        IN /\ fast.ok /\ fallback.ok
           /\ fast.dirty = fallback.dirty
           /\ components.Dirty = fallback.dirty

(***************************************************************************)
(* C21: the fast path of the dirty check.  When the index refresh fails    *)
(* the check answers dirty with no error, the refresh having been run once *)
(* and the diff not at all, and the call goes on to the formatter.  When   *)
(* the refresh succeeds the diff is run exactly once after it, and when it *)
(* completes its output decides: non-empty is dirty, empty is clean.       *)
(***************************************************************************)
C21_RefreshFailure ==
  [][(pc = "workTreeIsDirty" /\ worktree.storer = "filesystem"
        /\ worktree.fault \in {"refresh", "diffExit", "diffErr", "none"})
     => IF worktree.fault = "refresh"
        THEN /\ commands' = commands \o <<UpdateIndex>>
             /\ err' = ""
             /\ components'.Dirty
             /\ pc' = "buildLanguageVersions"
        ELSE /\ commands' = commands \o <<UpdateIndex, DiffFiles>>
             /\ worktree.fault = "none"
                  => /\ err' = ""
                     /\ pc' = "buildLanguageVersions"
                     /\ components'.Dirty = (Len(diffFilesOutput(worktree.state)) > 0)
                     /\ worktree.state = "modified" => components'.Dirty
                     /\ worktree.state = "clean" => ~components'.Dirty]_vars

\* a call went past a failed refresh: dirty, no error, one command run
C21_Witness ==
  /\ pc = "done"
  /\ worktree.storer = "filesystem"
  /\ worktree.fault = "refresh"
  /\ commands = <<UpdateIndex>>
  /\ components.Dirty
  /\ err = ""
  /\ result.SemVer # ""

(***************************************************************************)
(* C22: tag-prefix stripping.  The base version string of the tag that     *)
(* determineBaseVersion returns is the text of the tag's short name after  *)
(* its final "/" (the whole name when it has none), with exactly one       *)
(* leading "v" removed when there is one: "v0.0.0" gives "0.0.0",          *)
(* "sdk/v2.1.0" and "sdk/nodejs/v2.1.0" give "2.1.0".                      *)
(***************************************************************************)
C22_PrefixStripping ==
  (BaseResolved /\ tagRef # "") =>
     LET short == TrimPrefix(tagRef, "refs/tags/")
         segments == Split(short, "/")
         last == segments[Len(segments)]
     IN /\ baseVersion = (IF Len(last) > 0 /\ Ch(last, 1) = "v"
                          THEN SubSeq(last, 2, Len(last)) ELSE last)
        /\ short = "v0.0.0" => baseVersion = "0.0.0"
        /\ short \in {"sdk/v2.1.0", "sdk/nodejs/v2.1.0"} => baseVersion = "2.1.0"
        /\ short = "vv1.0.0" => baseVersion = "v1.0.0"
        /\ short = "latest" => baseVersion = "latest"

\* the tag with a two-level module prefix was found and stripped to 2.1.0
C22_Witness ==
  /\ BaseResolved
  /\ tagRef = "refs/tags/sdk/nodejs/v2.1.0"
  /\ baseVersion = "2.1.0"
  /\ pc = "done"
  /\ err = ""

(***************************************************************************)
(* C23 (as stated in the README): when uncommitted changes are detected,   *)
(* the generic version string of a development build (a commit that is not *)
(* an exact release, hence a prerelease) contains the suffix "-dirty".     *)
(***************************************************************************)
C23_Original ==
  (CalculateReturned /\ components.Dirty /\ ~components.IsExact
     /\ Len(components.Semver.Pre) > 0)
    => Contains(result.SemVer, "-dirty")

(***************************************************************************)
(* C24: fallback of the command line program.  When the repository cannot  *)
(* be opened, or when Calculate returns an error, calculateVersion writes  *)
(* the fixed fallback version (SemVer 0.0.0-dev, Python 0.0.0.dev0,        *)
(* JavaScript v0.0.0-dev, .NET 0.0.0-dev, Go v0.0.0-dev), as the string of *)
(* the chosen language or as JSON, and returns no error: an error of       *)
(* Calculate is never reported.                                            *)
(***************************************************************************)
\* the directory calculateVersion opens, once the working directory is known
CLIRepoPath == IF cli.Repo = "" THEN cwd ELSE cli.Repo

\* the line of the fallback version for a value of --language
FallbackLine(language) ==
  IF language \in {"python", "Python"} THEN "0.0.0.dev0\n"
  ELSE IF language \in {"javascript", "js", "node", "go", "golang", "Go"} THEN "v0.0.0-dev\n"
  ELSE "0.0.0-dev\n"

FallbackJSON ==
  "{\"semver\":\"0.0.0-dev\",\"python\":\"0.0.0.dev0\",\"javascript\":\"v0.0.0-dev\",\"dotnet\":\"0.0.0-dev\",\"go\":\"v0.0.0-dev\"}\n"

\* what the program writes for the fallback version
FallbackOutput == IF cli.JSON THEN FallbackJSON ELSE FallbackLine(cli.Language)

C24_CLIFallback ==
  [][/\ (pc = "CLI.calculateVersion" /\ CLIRepoPath = NonGitDir) =>
          /\ pc' = "exit"
          /\ exitErr' = ""
          /\ stdout' = FallbackOutput
          /\ commands' = <<>> /\ revision' = 0
     /\ (pc = "done" /\ cli.invoked /\ err # "") =>
          /\ pc' = "exit"
          /\ exitErr' = ""
          /\ stdout' = FallbackOutput]_vars

\* Calculate failed on the tag "latest" and the program printed the fallback
\* version for Python, returning no error
C24_Witness ==
  /\ pc = "exit"
  /\ cli.invoked
  /\ err = "calculating version components: parsing base version"
  /\ cli.Language = "python"
  /\ ~cli.JSON
  /\ stdout = "0.0.0.dev0\n"
  /\ exitErr = ""

(***************************************************************************)
(* C25: the ancestry walk of mostRecentTag.  The commits are visited in    *)
(* preorder, first parent first, from the given commit, each at most once; *)
(* every visited commit is checked for a visible tag under the options of  *)
(* the call; the walk stops at the first visited commit that has one, and  *)
(* examines no commit after it.  Every iteration visits a commit not seen  *)
(* before, so the walk ends after at most as many iterations as there are  *)
(* reachable commits; it ends without a tag exactly when no reachable      *)
(* commit has a visible tag.  (An iteration at which a read of the store   *)
(* fails ends the call with the error instead.)                            *)
(***************************************************************************)
C25_AncestryWalk ==
  [][(pc = "mostRecentTag" /\ err' = "") =>
       LET order == PreorderList(<<revision>>, {})
           k == Cardinality(walker.seen)
       IN /\ k <= Len(order)
          /\ walker.seen = {order[i] : i \in 1..k}
          /\ \A i \in 1..k : ~HasVisibleTag(order[i])
          /\ {order[i] : i \in 1..Len(order)} = Ancestors(revision)
          /\ IF k = Len(order)
             THEN /\ pc' = "parse"
                  /\ tagRef' = ""
                  /\ baseVersion' = "0.0.0"
                  /\ ~isExact'
                  /\ NoVisibleTagReachable(revision)
             ELSE LET c == order[k + 1]
                  IN /\ c \notin walker.seen
                     /\ walker'.seen = walker.seen \cup {c}
                     /\ IF HasVisibleTag(c)
                        THEN /\ pc' = "parse"
                             /\ \E t \in tags : /\ VisibleTag(t)
                                                /\ t.target = c
                                                /\ tagRef' = RefNameString(t)
                             /\ ~NoVisibleTagReachable(revision)
                        ELSE /\ pc' = "mostRecentTag"
                             /\ tagRef' = ""]_vars

\* on a history with a merge the walk stopped at a tagged commit after three
\* commits, leaving a reachable commit unvisited
C25_Witness ==
  /\ pc = "parse"
  /\ FoundRecent
  /\ Len(parents[revision]) = 2
  /\ Cardinality(walker.seen) = 3
  /\ FoundCommit \in walker.seen
  /\ Ancestors(revision) \ walker.seen # {}

(***************************************************************************)
(* C26: an unparsable base tag is fatal.  When the tag the resolver found, *)
(* on the commit itself or on the first tagged commit of the walk, is not  *)
(* a strict semantic version after prefix stripping ("latest", "v1.2"),    *)
(* Calculate fails with the parse error and returns no LanguageVersions;   *)
(* it does so although another tag of the same commit, or a tag of an      *)
(* older commit, would parse.                                              *)
(***************************************************************************)
ParseError == "calculating version components: parsing base version"

C26_UnparsableFatal ==
  (pc = "done" /\ tagRef # "" /\ revision # 0) =>
     LET short == TrimPrefix(tagRef, "refs/tags/")
         failed == err = ParseError /\ result = NoLanguageVersions
     IN /\ ~semverParse(baseVersion).ok => failed
        /\ short \in {"latest", "v1.2", "vv1.0.0"} => failed
        /\ failed => /\ components.ShortHash = ""
                     /\ version = NoVersion

\* the commit carries "latest" and "v1.0.0": the resolver took "latest" and
\* the call failed, although the other tag of the commit parses
C26_Witness ==
  /\ pc = "done"
  /\ tagRef = "refs/tags/latest"
  /\ isExact
  /\ \E t \in tags : t.name = "v1.0.0" /\ t.target = revision
  /\ err = ParseError
  /\ result = NoLanguageVersions

(***************************************************************************)
(* C27 (as stated): the only failure the dirty check absorbs is that of    *)
(* the index refresh.  A call gets past the dirty check with a failure in  *)
(* it only when the refresh failed; a diff command that fails in any way,  *)
(* a worktree that cannot be obtained and a failing status query end the   *)
(* call with the dirty-check error.                                        *)
(***************************************************************************)
DirtyError == "calculating version components: checking if worktree is dirty"

\* the error with which the dirty check of working tree wt ends the call:
\* the context of the check, then the context of the step inside it
DirtyErrorOf(wt) ==
  DirtyError \o (CASE wt.fault = "worktree" -> ": getting worktree"
                   [] wt.fault = "status" -> ": getting git status"
                   [] OTHER -> "")

C27_Original ==
  /\ (ComponentsBuilt /\ worktree.fault # "none") => worktree.fault = "refresh"
  /\ (pc = "done" /\ commands # <<>> /\ worktree.fault \in {"diffExit", "diffErr"})
       => err = DirtyError

(***************************************************************************)
(* C27 (amended): the dirty check absorbs two failures, that of the index  *)
(* refresh and a diff command that runs and exits with a non-zero status:  *)
(* both give dirty = true and no error.  A diff command that cannot be     *)
(* run, a worktree that cannot be obtained and a failing status query end  *)
(* the call with the dirty-check error and no LanguageVersions; the error  *)
(* of the worktree carries the further context "getting worktree", that of *)
(* the status query "getting git status".                                  *)
(***************************************************************************)
C27_AbsorbedFailures ==
  [][(pc = "workTreeIsDirty" /\ worktree.fault # "none") =>
       IF worktree.fault \in {"refresh", "diffExit"}
       THEN /\ err' = ""
            /\ components'.Dirty
            /\ pc' = "buildLanguageVersions"
       ELSE /\ err' = DirtyErrorOf(worktree)
            /\ HasPrefix(err', DirtyError)
            /\ result' = NoLanguageVersions
            /\ pc' = "done"
            /\ components' = components]_vars

\* the diff command exited with a non-zero status and the call returned a
\* dirty version
C27_Witness ==
  /\ pc = "done"
  /\ worktree.fault = "diffExit"
  /\ commands = <<UpdateIndex, DiffFiles>>
  /\ components.Dirty
  /\ err = ""
  /\ Contains(result.SemVer, "dirty")

(***************************************************************************)
(* C28 (as stated): strip-then-extract in getPythonPreVersion.  For every  *)
(* prerelease tail of a known kind that contains a build hash, "+" and     *)
(* exactly 8 lowercase hex digits, the PEP440 ordinal is never taken from  *)
(* the digits of a hash: it is the first standalone decimal number of the  *)
(* tail outside the hashes, or "0" when there is none, and a "dirty"       *)
(* marker gives a trailing "+dirty" and leaves the ordinal as it is.       *)
(***************************************************************************)
\* the positions of s where a build hash starts: "+", 8 hex digits, no ninth
BuildHashStarts(s) ==
  {i \in 1..(Len(s) - 8) :
     /\ Ch(s, i) = "+"
     /\ containsOnly(SubSeq(s, i + 1, i + 8), HexChars)
     /\ ~(i + 9 <= Len(s) /\ Contains(HexChars, Ch(s, i + 9)))}

\* s without its build hashes
RECURSIVE WithoutBuildHashes(_)
WithoutBuildHashes(s) ==
  LET starts == BuildHashStarts(s)
  IN IF starts = {} THEN s
     ELSE LET i == CHOOSE k \in starts : \A j \in starts : k <= j
          IN SubSeq(s, 1, i - 1) \o WithoutBuildHashes(SubSeq(s, i + 9, Len(s)))

C28_Original ==
  (pc = "done" /\ versionString # "" /\ err = "" /\ revision = 0 /\ ~cli.invoked) =>
     LET parts == versionParts(normaliseVersion(versionString))
         m == patchSubmatch(parts[3])
         tail == m.pre
         kind == CASE HasPrefix(tail, "-dev") -> <<"dev", 4>>
                   [] HasPrefix(tail, "-alpha") -> <<"a", 6>>
                   [] HasPrefix(tail, "-beta") -> <<"b", 5>>
                   [] HasPrefix(tail, "-rc") -> <<"rc", 3>>
                   [] OTHER -> <<"", 0>>
         rest == WithoutBuildHashes(RemoveFirst(SubSeq(tail, kind[2] + 1, Len(tail)), "dirty"))
         num == numSubmatch(rest)
         ordinal == IF num.matched THEN num.num ELSE "0"
     IN (m.matched /\ kind[1] # "" /\ BuildHashStarts(tail) # {}) =>
          result.Python = parts[1] \o "." \o parts[2] \o "." \o m.version \o kind[1]
                            \o ordinal
                            \o (IF Contains(tail, "dirty") THEN "+dirty" ELSE "")

(***************************************************************************)
(* C29: independence from the order in which the tags are enumerated.      *)
(* For a repository, a commit and options, the exactness flag and the      *)
(* commit at which mostRecentTag finds a tag are fixed by these inputs:    *)
(* the commit is exact iff it carries a visible tag, and otherwise the tag *)
(* is found at the first commit of the preorder walk that carries one.     *)
(* The returned tag is one of the visible tags of that commit, and what    *)
(* Calculate returns is what the stages compute from that tag; when every  *)
(* commit carries at most one visible tag there is one such tag, so the    *)
(* result is a function of repository state and options.                   *)
(***************************************************************************)
\* the names of the tags the resolver can return for the resolved commit:
\* the visible tags of the commit, else those of the first commit of the walk
\* that has one, else "" for no tag
CandidateNames ==
  LET order == PreorderList(<<revision>>, {})
      tagged == {i \in 1..Len(order) : HasVisibleTag(order[i])}
  IN IF tagged = {} THEN {""}
     ELSE LET first == CHOOSE i \in tagged : \A j \in tagged : i <= j
          IN {t.name : t \in {u \in tags : VisibleTag(u) /\ u.target = order[first]}}

\* what Calculate returns when the resolver returns the tag `name`: <<result, err>>
OutcomeFor(name) ==
  LET exact == HasVisibleTag(revision)
      base == IF name = "" THEN "0.0.0" ELSE stripModuleTagPrefixes(name)
      p == semverParse(base)
  IN IF ~p.ok THEN <<NoLanguageVersions, ParseError>>
     ELSE LET r == applyReleasePrefix(bumpVersion(p.v, exact), opts.ReleasePrefix)
          IN IF ~r.ok
             THEN <<NoLanguageVersions, "calculating version components: parsing release prefix">>
             ELSE LET d == workTreeIsDirty(worktree)
                  IN IF ~d.ok THEN <<NoLanguageVersions, DirtyErrorOf(worktree)>>
                     ELSE LET b == buildLanguageVersions(
                                     [Semver |-> r.v, Dirty |-> d.dirty,
                                      ShortHash |-> SubSeq(HashString(revision), 1, 8),
                                      Timestamp |-> CommitterWhen(revision),
                                      IsExact |-> exact], opts)
                          IN IF ~b.ok THEN <<NoLanguageVersions, "invalid prerelease type">>
                             ELSE <<b.lv, "">>

C29_OrderIndependence ==
  (pc = "done" /\ revision # 0 /\ storerFault = "none") =>
     LET independent(names, found) ==
           /\ isExact = HasVisibleTag(revision)
           /\ tagRef # "" =>
                /\ found = (CHOOSE t \in tags : t.name \in names).target
                /\ \A t \in tags : t.name \in names => t.target = found
           /\ TrimPrefix(tagRef, "refs/tags/") \in names
           /\ <<result, err>> = OutcomeFor(TrimPrefix(tagRef, "refs/tags/"))
           /\ (\A c \in 1..Len(parents) :
                 Cardinality({t \in tags : VisibleTag(t) /\ t.target = c}) <= 1)
                => /\ Cardinality(names) = 1
                   /\ \A n \in names : <<result, err>> = OutcomeFor(n)
     IN independent(CandidateNames, FoundCommit)

\* two visible tags on the first tagged ancestor: v2.0.0 was returned, v1.0.0
\* could have been, and the commit found is the same
C29_Witness ==
  /\ pc = "done"
  /\ err = ""
  /\ ~isExact
  /\ tagRef = "refs/tags/v2.0.0"
  /\ CandidateNames = {"v1.0.0", "v2.0.0"}
  /\ FoundCommit # revision

(***************************************************************************)
(* C30: consistency of the two entry points.  For every LanguageVersions r *)
(* that Calculate returns (any prerelease kind, exact or not, dirty or     *)
(* not, with or without hash), CalculateFromString(r.SemVer) succeeds and  *)
(* returns the Python string of r and the SemVer, DotNet, JavaScript and   *)
(* Go strings of r.                                                        *)
(***************************************************************************)
C30_EntryPointsAgree ==
  CalculateReturned =>
     LET c == CalculateFromString(result.SemVer)
     IN /\ c.ok
        /\ c.err = ""
        /\ c.lv.Python = result.Python
        /\ c.lv.SemVer = result.SemVer
        /\ c.lv.DotNet = result.DotNet
        /\ c.lv.JavaScript = result.JavaScript
        /\ c.lv.Go = result.Go

\* a dirty development build with hash: the generic string ends in ".dirty",
\* and converting it gives back the Python string with "+dirty"
C30_Witness ==
  /\ CalculateReturned
  /\ components.Dirty
  /\ ~isExact
  /\ HasSuffix(result.SemVer, SubSeq(HashString(revision), 1, 8) \o ".dirty")
  /\ HasSuffix(result.Python, "+dirty")
  /\ CalculateFromString(result.SemVer).lv.Python = result.Python

====
